---------------------------- MODULE Spec2Model ----------------------------
(***************************************************************************)
(* Model of the JARVIS command resolution and session engine (src/main.py).*)
(*                                                                         *)
(* Python strings are sequences of one-character strings, so that          *)
(* str.lower, str.strip and the `in` substring test are computed and not   *)
(* assumed.  Python dicts are sequences of <<key, value>> pairs in         *)
(* insertion order (assigning to an existing key keeps its position).      *)
(***************************************************************************)
EXTENDS Integers, Naturals, Sequences, FiniteSets

VARIABLES
    commands,               \* CommandProcessor.commands: name -> handler
    aliases,                \* CommandProcessor.aliases: alias -> name
    conversation_history,   \* ConversationEngine.conversation_history
    is_running,             \* JARVISAssistant.is_running
    exit_flag,              \* JARVISAssistant.exit_flag
    enable_voice,           \* JARVISAssistant.enable_voice
    voice_engines,          \* whether __init__ made self.voice_recognition and
                            \* self.text_to_speech
    loop,                   \* the interaction loop being executed, if any
    caller,                 \* who called that loop: run() or a direct call
    last,                   \* the most recent call and what it returned
    appended,               \* history variable: every turn ever appended
    nregs,                  \* history variable: register_command calls made
    terminated,             \* history variable: a loop has ended by an exit
                            \* phrase or by an interrupt
    returned,               \* the list a get_history call gave its caller
    pc,                     \* the control thread's place in the loop body
    speaking,               \* the speech threads started and not yet finished
    log                     \* history variable: the steps taken, in order

vars == <<commands, aliases, conversation_history, is_running, exit_flag,
          enable_voice, voice_engines, loop, caller, last, appended, nregs,
          terminated,
          returned, pc, speaking, log>>

registryVars == <<commands, aliases, nregs>>

sessionVars ==
    <<is_running, exit_flag, enable_voice, voice_engines, loop, caller, terminated>>

turnVars == <<pc, speaking, log>>

-----------------------------------------------------------------------------
(* Bounds of the model.                                                    *)

MaxAppends == 12

MaxRegs == 2

\* the longest ledger a session of Spec builds
MaxSessionLedger == 2

-----------------------------------------------------------------------------
(* Python str operations.                                                  *)

Whitespace == {" ", "\t", "\n", "\r"}

UpperToLower ==
    [c \in {"A","B","C","D","E","F","G","H","I","J","K","L","M",
            "N","O","P","Q","R","S","T","U","V","W","X","Y","Z"} |->
        CASE c = "A" -> "a" [] c = "B" -> "b" [] c = "C" -> "c" [] c = "D" -> "d"
          [] c = "E" -> "e" [] c = "F" -> "f" [] c = "G" -> "g" [] c = "H" -> "h"
          [] c = "I" -> "i" [] c = "J" -> "j" [] c = "K" -> "k" [] c = "L" -> "l"
          [] c = "M" -> "m" [] c = "N" -> "n" [] c = "O" -> "o" [] c = "P" -> "p"
          [] c = "Q" -> "q" [] c = "R" -> "r" [] c = "S" -> "s" [] c = "T" -> "t"
          [] c = "U" -> "u" [] c = "V" -> "v" [] c = "W" -> "w" [] c = "X" -> "x"
          [] c = "Y" -> "y" [] c = "Z" -> "z"]

\* str.lower()
Lower(s) ==
    [i \in 1..Len(s) |-> IF s[i] \in DOMAIN UpperToLower THEN UpperToLower[s[i]] ELSE s[i]]

\* str.strip(): drops the leading and the trailing whitespace
Strip(s) ==
    LET keep == {i \in 1..Len(s) : s[i] \notin Whitespace}
    IN  IF keep = {} THEN <<>>
        ELSE LET lo == CHOOSE i \in keep : \A j \in keep : i <= j
                 hi == CHOOSE i \in keep : \A j \in keep : j <= i
             IN  SubSeq(s, lo, hi)

\* sub in s
Contains(sub, s) ==
    \E i \in 0..Len(s) : i + Len(sub) <= Len(s) /\ SubSeq(s, i + 1, i + Len(sub)) = sub

-----------------------------------------------------------------------------
(* Python dict: <<key, value>> pairs in insertion order.                   *)

DictKeys(d) == {d[i][1] : i \in 1..Len(d)}

DictIndex(d, k) == CHOOSE i \in 1..Len(d) : d[i][1] = k

\* d[k]
DictGet(d, k) == d[DictIndex(d, k)][2]

\* d[k] = v on a mapping that moves a re-assigned key to the end
DictSet_MovesToEnd(d, k, v) ==
    Append(SelectSeq(d, LAMBDA e : e[1] # k), <<k, v>>)

\* d[k] = v
DictSet(d, k, v) ==
    IF k \in DictKeys(d) THEN [d EXCEPT ![DictIndex(d, k)] = <<k, v>>]
    ELSE Append(d, <<k, v>>)

\* the position of the last entry whose key is in s (a loop that keeps
\* searching after a match)
FirstContained_Last(d, s) ==
    CHOOSE i \in 1..Len(d) :
        /\ Contains(d[i][1], s)
        /\ \A j \in (i + 1)..Len(d) : ~Contains(d[j][1], s)

\* the position of the first entry, in iteration order, whose key is in s
FirstContained(d, s) ==
    CHOOSE i \in 1..Len(d) :
        /\ Contains(d[i][1], s)
        /\ \A j \in 1..(i - 1) : ~Contains(d[j][1], s)

-----------------------------------------------------------------------------
(* Command handlers: zero-argument callables.  The four built-in handlers  *)
(* are the static methods of CommandProcessor; h_a, h_b, h_empty and       *)
(* h_raise are handlers a caller passes to register_command: two that      *)
(* return distinct replies, one that returns the empty string and one that *)
(* raises an Exception.                                                    *)

BuiltinHandlers == {"_handle_time", "_handle_date", "_handle_help", "_handle_exit"}

CallerHandlers == {"h_a", "h_b", "h_empty", "h_raise"}

\* whether calling the handler raises
HandlerRaises(h) == h = "h_raise"

\* what the handler returns (datetime.now() is read as 12:00 PM on
\* Thursday, November 05, 2026)
HandlerReturn(h) ==
    CASE h = "_handle_time" ->
           <<"T","h","e"," ","c","u","r","r","e","n","t"," ","t","i","m","e"," ","i","s"," ","1","2",":","0","0"," ","P","M">>
      [] h = "_handle_date" ->
           <<"T","o","d","a","y"," ","i","s"," ","T","h","u","r","s","d","a","y",","," ","N","o","v","e","m","b","e","r"," ","0","5",","," ","2","0","2","6">>
      [] h = "_handle_help" ->
           <<"A","v","a","i","l","a","b","l","e"," ","c","o","m","m","a","n","d","s",":"," ","t","i","m","e",","," ","d","a","t","e",","," ","h","e","l","p",","," ","e","x","i","t","."," ","Y","o","u"," ","c","a","n"," ","a","l","s","o"," ","a","s","k"," ","m","e"," ","q","u","e","s","t","i","o","n","s","!">>
      [] h = "_handle_exit" ->
           <<"G","o","o","d","b","y","e","!"," ","S","h","u","t","t","i","n","g"," ","d","o","w","n",".",".",".">>
      [] h = "h_a" -> <<"A">>
      [] h = "h_b" -> <<"B">>
      [] OTHER -> <<>>

-----------------------------------------------------------------------------
(* CommandProcessor.                                                       *)

\* the alias loop as `self.aliases.setdefault(alias.lower(), command.lower())`:
\* an alias already bound keeps its name
RECURSIVE RegisterAliases_KeepsBound(_, _, _)
RegisterAliases_KeepsBound(als, command, alias_list) ==
    IF alias_list = <<>> THEN als
    ELSE RegisterAliases_KeepsBound(
             IF Lower(Head(alias_list)) \in DictKeys(als) THEN als
             ELSE DictSet(als, Lower(Head(alias_list)), Lower(command)),
             command, Tail(alias_list))

\* the alias loop binding each alias to the name as passed, not lowercased
RECURSIVE RegisterAliases_NameAsPassed(_, _, _)
RegisterAliases_NameAsPassed(als, command, alias_list) ==
    IF alias_list = <<>> THEN als
    ELSE RegisterAliases_NameAsPassed(DictSet(als, Lower(Head(alias_list)), command),
                                      command, Tail(alias_list))

\* the loop `for alias in aliases: self.aliases[alias.lower()] = command.lower()`
RECURSIVE RegisterAliases(_, _, _)
RegisterAliases(als, command, alias_list) ==
    IF alias_list = <<>> THEN als
    ELSE RegisterAliases(DictSet(als, Lower(Head(alias_list)), Lower(command)),
                         command, Tail(alias_list))

\* register_command storing the handler under the trimmed name while the
\* aliases are bound to the untrimmed one
RegisterCommand_StoresTrimmed(cmds, als, command, handler, alias_list) ==
    [commands |-> DictSet(cmds, Strip(Lower(command)), handler),
     aliases  |-> RegisterAliases(als, command, alias_list)]

\* register_command(command, handler, aliases): the two maps afterwards
RegisterCommand(cmds, als, command, handler, alias_list) ==
    [commands |-> DictSet(cmds, Lower(command), handler),
     aliases  |-> RegisterAliases(als, command, alias_list)]

Registry0 == [commands |-> <<>>, aliases |-> <<>>]

\* _register_default_commands registering exit without its aliases
DefaultRegistry_ExitWithoutAliases ==
    LET r1 == RegisterCommand(Registry0.commands, Registry0.aliases,
                  <<"t","i","m","e">>, "_handle_time",
                  << <<"w","h","a","t"," ","t","i","m","e">>,
                     <<"c","u","r","r","e","n","t"," ","t","i","m","e">> >>)
        r2 == RegisterCommand(r1.commands, r1.aliases,
                  <<"d","a","t","e">>, "_handle_date",
                  << <<"w","h","a","t"," ","d","a","t","e">>,
                     <<"c","u","r","r","e","n","t"," ","d","a","t","e">> >>)
        r3 == RegisterCommand(r2.commands, r2.aliases,
                  <<"h","e","l","p">>, "_handle_help",
                  << <<"c","o","m","m","a","n","d","s">>,
                     <<"w","h","a","t"," ","c","a","n"," ","y","o","u"," ","d","o">> >>)
    IN  RegisterCommand(r3.commands, r3.aliases,
                  <<"e","x","i","t">>, "_handle_exit", <<>>)

\* _register_default_commands, on the empty maps of __init__
DefaultRegistry ==
    LET r1 == RegisterCommand(Registry0.commands, Registry0.aliases,
                  <<"t","i","m","e">>, "_handle_time",
                  << <<"w","h","a","t"," ","t","i","m","e">>,
                     <<"c","u","r","r","e","n","t"," ","t","i","m","e">> >>)
        r2 == RegisterCommand(r1.commands, r1.aliases,
                  <<"d","a","t","e">>, "_handle_date",
                  << <<"w","h","a","t"," ","d","a","t","e">>,
                     <<"c","u","r","r","e","n","t"," ","d","a","t","e">> >>)
        r3 == RegisterCommand(r2.commands, r2.aliases,
                  <<"h","e","l","p">>, "_handle_help",
                  << <<"c","o","m","m","a","n","d","s">>,
                     <<"w","h","a","t"," ","c","a","n"," ","y","o","u"," ","d","o">> >>)
    IN  RegisterCommand(r3.commands, r3.aliases,
                  <<"e","x","i","t">>, "_handle_exit",
                  << <<"q","u","i","t">>, <<"s","t","o","p">>,
                     <<"g","o","o","d","b","y","e">> >>)

\* the record of a call: what it returned or raised, the handlers it
\* invoked, and the return statement (tier) of process_command it left by
NoCall ==
    [op |-> "none", input |-> <<>>, tier |-> 0, invoked |-> <<>>,
     raised |-> "no", none |-> TRUE, value |-> <<>>,
     acquired |-> FALSE, emitted |-> <<>>]

\* handler(): the call made at one of the three return statements
CallHandler(h, tier) ==
    IF HandlerRaises(h)
    THEN [NoCall EXCEPT !.tier = tier, !.invoked = <<h>>, !.raised = "error"]
    ELSE [NoCall EXCEPT !.tier = tier, !.invoked = <<h>>, !.none = FALSE,
                        !.value = HandlerReturn(h)]

\* process_command without the name-containment loop
ProcessCommand_NoNameTier(cmds, als, user_input) ==
    LET inp == Strip(Lower(user_input))
    IN  IF inp \in DictKeys(cmds)
        THEN CallHandler(DictGet(cmds, inp), 1)
        ELSE IF \E i \in 1..Len(als) : Contains(als[i][1], inp)
        THEN LET command == als[FirstContained(als, inp)][2]
             IN  IF command \in DictKeys(cmds)
                 THEN CallHandler(DictGet(cmds, command), 2)
                 ELSE [NoCall EXCEPT !.tier = 2, !.raised = "error"]
        ELSE NoCall

\* process_command with the alias tier tried before the exact match
ProcessCommand_AliasFirst(cmds, als, user_input) ==
    LET inp == Strip(Lower(user_input))
    IN  IF \E i \in 1..Len(als) : Contains(als[i][1], inp)
        THEN CallHandler(DictGet(cmds, als[FirstContained(als, inp)][2]), 2)
        ELSE IF inp \in DictKeys(cmds)
        THEN CallHandler(DictGet(cmds, inp), 1)
        ELSE IF \E i \in 1..Len(cmds) : Contains(cmds[i][1], inp)
        THEN CallHandler(cmds[FirstContained(cmds, inp)][2], 3)
        ELSE NoCall

\* process_command(user_input)
ProcessCommand(cmds, als, user_input) ==
    LET inp == Strip(Lower(user_input))
    IN  IF inp \in DictKeys(cmds)
        THEN CallHandler(DictGet(cmds, inp), 1)
        ELSE IF \E i \in 1..Len(als) : Contains(als[i][1], inp)
        THEN LET command == als[FirstContained(als, inp)][2]
             IN  IF command \in DictKeys(cmds)
                 THEN CallHandler(DictGet(cmds, command), 2)
                 ELSE [NoCall EXCEPT !.tier = 2, !.raised = "error"]   \* KeyError
        ELSE IF \E i \in 1..Len(cmds) : Contains(cmds[i][1], inp)
        THEN CallHandler(cmds[FirstContained(cmds, inp)][2], 3)
        ELSE NoCall

-----------------------------------------------------------------------------
(* ConversationEngine.                                                     *)

max_history == 10

\* add_to_history evicting the newest turn (pop() for pop(0))
AddToHistory_PopNewest(history, role, content) ==
    LET h == Append(history, [role |-> role, content |-> content])
    IN  IF Len(h) > max_history THEN SubSeq(h, 1, Len(h) - 1) ELSE h

\* add_to_history(role, content): the history afterwards
AddToHistory(history, role, content) ==
    LET h == Append(history, [role |-> role, content |-> content])
    IN  IF Len(h) > max_history THEN Tail(h) ELSE h

\* the `responses` table of _generate_simple_response, in declaration order
responses ==
    << << <<"h","e","l","l","o">>,
          <<"H","e","l","l","o","!"," ","H","o","w"," ","c","a","n"," ","I"," ","a","s","s","i","s","t"," ","y","o","u"," ","t","o","d","a","y","?">> >>,
       << <<"h","i">>,
          <<"H","i"," ","t","h","e","r","e","!"," ","W","h","a","t"," ","c","a","n"," ","I"," ","d","o"," ","f","o","r"," ","y","o","u","?">> >>,
       << <<"h","o","w"," ","a","r","e"," ","y","o","u">>,
          <<"I","'","m"," ","f","u","n","c","t","i","o","n","i","n","g"," ","p","e","r","f","e","c","t","l","y",","," ","t","h","a","n","k"," ","y","o","u"," ","f","o","r"," ","a","s","k","i","n","g","!">> >>,
       << <<"w","h","a","t"," ","i","s"," ","y","o","u","r"," ","n","a","m","e">>,
          <<"I","'","m"," ","J","A","R","V","I","S",","," ","y","o","u","r"," ","A","I"," ","a","s","s","i","s","t","a","n","t",".">> >>,
       << <<"w","h","o"," ","c","r","e","a","t","e","d"," ","y","o","u">>,
          <<"I"," ","w","a","s"," ","c","r","e","a","t","e","d"," ","b","y"," ","t","h","e"," ","J","A","R","V","I","S"," ","D","e","v","e","l","o","p","m","e","n","t"," ","T","e","a","m",".">> >>,
       << <<"t","h","a","n","k"," ","y","o","u">>,
          <<"Y","o","u","'","r","e"," ","w","e","l","c","o","m","e","!"," ","H","a","p","p","y"," ","t","o"," ","h","e","l","p",".">> >>,
       << <<"t","h","a","n","k","s">>,
          <<"A","l","w","a","y","s"," ","h","a","p","p","y"," ","t","o"," ","h","e","l","p","!">> >> >>

\* user_input.split()[0]: the first whitespace-delimited token (the input
\* holds a character that is not whitespace)
FirstToken(s) ==
    LET start == CHOOSE i \in 1..Len(s) :
                     s[i] \notin Whitespace /\ \A j \in 1..(i - 1) : s[j] \in Whitespace
        stops == {i \in start..Len(s) : s[i] \in Whitespace}
        stop  == IF stops = {} THEN Len(s) + 1
                 ELSE CHOOSE i \in stops : \A j \in stops : i <= j
    IN  SubSeq(s, start, stop - 1)

\* _generate_simple_response testing the patterns against the input as
\* typed, not lowercased
GenerateSimpleResponse_CaseSensitive(user_input) ==
    IF \E i \in 1..Len(responses) : Contains(responses[i][1], user_input)
    THEN responses[FirstContained(responses, user_input)][2]
    ELSE <<"T","h","a","t","'","s"," ","i","n","t","e","r","e","s","t","i","n","g","."," ","I","'","m"," ","s","t","i","l","l"," ","l","e","a","r","n","i","n","g"," ","a","b","o","u","t"," ">>
         \o (IF Strip(user_input) # <<>> THEN FirstToken(user_input)
             ELSE <<"t","h","a","t">>)
         \o <<".">>

\* _generate_simple_response(user_input)
GenerateSimpleResponse(user_input) ==
    LET user_input_lower == Lower(user_input)
    IN  IF \E i \in 1..Len(responses) : Contains(responses[i][1], user_input_lower)
        THEN responses[FirstContained(responses, user_input_lower)][2]
        ELSE <<"T","h","a","t","'","s"," ","i","n","t","e","r","e","s","t","i","n","g","."," ","I","'","m"," ","s","t","i","l","l"," ","l","e","a","r","n","i","n","g"," ","a","b","o","u","t"," ">>
             \o (IF Strip(user_input) # <<>> THEN FirstToken(user_input)
                 ELSE <<"t","h","a","t">>)
             \o <<".">>

\* generate_response recording the reply without the user's turn
GenerateResponse_ReplyOnly(history, user_input) ==
    LET response == GenerateSimpleResponse(user_input)
    IN  [history  |-> AddToHistory(history, "assistant", response),
         response |-> response]

\* generate_response(user_input): the history afterwards and the reply
GenerateResponse(history, user_input) ==
    LET response == GenerateSimpleResponse(user_input)
    IN  [history  |-> AddToHistory(AddToHistory(history, "user", user_input),
                                   "assistant", response),
         response |-> response]

-----------------------------------------------------------------------------
(* The state after JARVISAssistant.__init__: both flags false, the default *)
(* registrations made, an empty history.                                   *)

\* __init__ keeping enable_voice as requested when the engines fail
EnableVoice_AsRequested(requested, constructible) == requested

\* self.enable_voice after __init__: the parameter, set to False when the
\* construction of the voice engines raises
EnableVoice(requested, constructible) == requested /\ constructible

InitAssistant ==
    /\ commands = DefaultRegistry.commands
    /\ aliases = DefaultRegistry.aliases
    /\ conversation_history = <<>>
    /\ is_running = FALSE
    /\ exit_flag = FALSE
    /\ \E requested, constructible \in BOOLEAN :
          /\ voice_engines = (requested /\ constructible)
          /\ enable_voice = EnableVoice(requested, constructible)
    /\ loop = "none"
    /\ caller = "none"
    /\ last = NoCall
    /\ appended = <<>>
    /\ nregs = 0
    /\ terminated = FALSE
    /\ returned = <<>>
    /\ pc = "while"
    /\ speaking = {}
    /\ log = <<>>

-----------------------------------------------------------------------------
(* SpecLedger: a ConversationEngine driven by add_to_history calls.        *)

Roles == {"user", "assistant"}

LedgerContents == { <<"h","i">> }

InitLedger == InitAssistant /\ enable_voice = FALSE

AddToHistoryCall(role, content) ==
    /\ Len(appended) < MaxAppends
    /\ conversation_history' = AddToHistory(conversation_history, role, content)
    /\ appended' = Append(appended, [role |-> role, content |-> content])
    /\ last' = [NoCall EXCEPT !.op = "add_to_history", !.input = content]
    /\ UNCHANGED <<returned, turnVars, registryVars, sessionVars>>

NextLedger ==
    \E role \in Roles, content \in LedgerContents : AddToHistoryCall(role, content)

SpecLedger == InitLedger /\ [][NextLedger]_vars

-----------------------------------------------------------------------------
(* SpecClear: a ConversationEngine whose caller appends turns and calls    *)
(* clear_history.  clear_history binds the attribute to a new empty list,  *)
(* so here `appended` is the sequence of the turns appended to the list    *)
(* the attribute is bound to now, and `log` records the clear_history     *)
(* calls made.                                                             *)

MaxClears == 2

\* clear_history() leaving the oldest turn in place
ClearHistory_KeepsOldest(history) ==
    IF history = <<>> THEN <<>> ELSE <<history[1]>>

\* clear_history(): self.conversation_history = []
ClearHistory(history) == <<>>

ClearHistoryCall ==
    /\ Len(log) < MaxClears
    /\ conversation_history' = ClearHistory(conversation_history)
    /\ appended' = <<>>
    /\ log' = Append(log, "clear_history")
    /\ last' = [NoCall EXCEPT !.op = "clear_history"]
    /\ UNCHANGED <<returned, pc, speaking, registryVars, sessionVars>>

NextClear ==
    \/ \E role \in Roles, content \in LedgerContents : AddToHistoryCall(role, content)
    \/ ClearHistoryCall

SpecClear == InitLedger /\ [][NextClear]_vars

-----------------------------------------------------------------------------
(* SpecHistory: a ConversationEngine whose caller appends turns, calls     *)
(* get_history and changes the list it was given.  A turn is a dict        *)
(* object.  `returned` is the caller's list: for each element, which       *)
(* object it is (ref: the ordinal of the add_to_history call that created  *)
(* it, 0 for a dict the caller made) and the object's value.               *)

MaxHistoryAppends == 3

MaxReturnedLen == 3

\* the ordinal of the add_to_history call that created the p-th turn of
\* the ledger: the ledger holds the most recently created turns
LedgerRef(p) == Len(appended) - Len(conversation_history) + p

\* get_history(): list.copy() makes a new list of the same dict objects
GetHistory ==
    IF conversation_history = <<>> THEN <<>>
    ELSE [p \in 1..Len(conversation_history) |->
              [ref |-> LedgerRef(p), turn |-> conversation_history[p]]]

GetHistoryCall ==
    /\ returned' = GetHistory
    /\ last' = [NoCall EXCEPT !.op = "get_history"]
    /\ UNCHANGED <<turnVars, conversation_history, appended, registryVars, sessionVars>>

\* what the caller writes into a turn
CallerKeys == {"role", "content"}

CallerValue(key) == IF key = "role" THEN "system" ELSE <<"x">>

\* returned.append({'role': 'user', 'content': 'x'})
CallerAppends ==
    /\ Len(returned) < MaxReturnedLen
    /\ returned' = Append(returned,
                          [ref |-> 0, turn |-> [role |-> "user", content |-> <<"x">>]])
    /\ last' = [NoCall EXCEPT !.op = "caller_mutation"]
    /\ UNCHANGED <<turnVars, conversation_history, appended, registryVars, sessionVars>>

\* returned.pop(i)
CallerRemoves(i) ==
    /\ i \in 1..Len(returned)
    /\ returned' = SubSeq(returned, 1, i - 1) \o SubSeq(returned, i + 1, Len(returned))
    /\ last' = [NoCall EXCEPT !.op = "caller_mutation"]
    /\ UNCHANGED <<turnVars, conversation_history, appended, registryVars, sessionVars>>

\* returned[i][key] = value: the assignment goes to the dict object, which
\* the ledger holds too when the object is one of its turns
CallerSets(i, key) ==
    /\ i \in 1..Len(returned)
    /\ returned[i].turn[key] # CallerValue(key)
    /\ returned' = [returned EXCEPT ![i].turn[key] = CallerValue(key)]
    /\ LET ref == returned[i].ref
           evicted == Len(appended) - Len(conversation_history)
       IN  conversation_history' =
               IF ref > evicted
               THEN [conversation_history EXCEPT ![ref - evicted][key] = CallerValue(key)]
               ELSE conversation_history
    /\ last' = [NoCall EXCEPT !.op = "caller_mutation"]
    /\ UNCHANGED <<turnVars, appended, registryVars, sessionVars>>

NextHistory ==
    \/ \E role \in Roles, content \in LedgerContents :
           Len(appended) < MaxHistoryAppends /\ AddToHistoryCall(role, content)
    \/ GetHistoryCall
    \/ CallerAppends
    \/ \E i \in 1..MaxReturnedLen : CallerRemoves(i)
    \/ \E i \in 1..MaxReturnedLen, key \in CallerKeys : CallerSets(i, key)

SpecHistory == InitLedger /\ [][NextHistory]_vars

-----------------------------------------------------------------------------
(* SpecResponder: a ConversationEngine whose caller calls generate_response *)
(* on ledgers of different content.                                        *)

MaxResponderTurns == 3

\* inputs passed to generate_response
FallbackInputs ==
    { <<"H","e","l","l","o"," ","t","h","e","r","e">>,
      <<"t","h","a","n","k","s",","," ","h","i">>,
      <<"t","h","a","n","k"," ","y","o","u">>,
      <<"T","h","a","n","k","s">>,
      <<"t","h","i","s">>,
      <<"h","o","w"," ","a","r","e"," ","y","o","u">>,
      <<"W","h","a","t"," ","i","s"," ","y","o","u","r"," ","n","a","m","e">>,
      <<"w","h","o"," ","c","r","e","a","t","e","d"," ","y","o","u">>,
      <<"T","e","l","l"," ","m","e">>,
      <<" "," ","t","w","o"," ","w","o","r","d","s">>,
      <<>>,
      <<" ">> }

GenerateResponseCall(user_input) ==
    /\ Len(appended) < MaxResponderTurns
    /\ LET g == GenerateResponse(conversation_history, user_input)
       IN  /\ conversation_history' = g.history
           /\ appended' = appended \o
                  << [role |-> "user", content |-> user_input],
                     [role |-> "assistant", content |-> g.response] >>
           /\ last' = [NoCall EXCEPT !.op = "generate_response", !.input = user_input,
                                     !.none = FALSE, !.value = g.response]
    /\ UNCHANGED <<returned, turnVars, registryVars, sessionVars>>

NextResponder ==
    \/ \E role \in Roles, content \in LedgerContents :
           Len(appended) < MaxResponderTurns /\ AddToHistoryCall(role, content)
    \/ \E user_input \in FallbackInputs : GenerateResponseCall(user_input)

SpecResponder == InitLedger /\ [][NextResponder]_vars

-----------------------------------------------------------------------------
(* SpecRegistry: a CommandProcessor driven by register_command and         *)
(* process_command calls.                                                  *)

\* names passed to register_command: a plain name, the same name in another
\* case, a name with trailing whitespace, a name that contains another
RegNames ==
    { <<"g","o">>, <<"G","o">>, <<"g","o"," ">>, <<"e","g","o">> }

RegHandlers == {"h_a", "h_b"}

\* alias lists passed to register_command; "Quit" re-binds a built-in alias
RegAliasLists ==
    { <<>>,
      << <<"g">> >>,
      << <<"e","g">>, <<"g">> >>,
      << <<"Q","u","i","t">> >> }

\* inputs passed to process_command
ProcInputs ==
    RegNames \cup
    { <<"E","G","O"," ">>, <<"l","e","g","o">>, <<"l","e","g">>, <<"b","i","g">>,
      <<"w","h","a","t"," ","t","i","m","e"," ","i","s"," ","i","t">>,
      <<"h","e","l","p"," ","t","i","m","e">>,
      <<"t","i","m","e"," ","f","l","i","e","s">>,
      <<"T","i","m","e">>, <<"q","u","i","t">>,
      <<"s","t","o","p"," ","o","r"," ","q","u","i","t">>,
      <<"x","y","z">>, <<>> }

InitRegistry == InitAssistant /\ enable_voice = FALSE

RegisterCommandCall(command, handler, alias_list) ==
    /\ nregs < MaxRegs
    /\ LET r == RegisterCommand(commands, aliases, command, handler, alias_list)
       IN  /\ commands' = r.commands
           /\ aliases' = r.aliases
    /\ nregs' = nregs + 1
    /\ last' = [NoCall EXCEPT !.op = "register_command", !.input = command]
    /\ UNCHANGED <<returned, turnVars, conversation_history, appended, sessionVars>>

\* process_command remembering an alias-tier hit as a name of its own
ProcessCommandCall_Caches(user_input) ==
    LET r == ProcessCommand(commands, aliases, user_input)
    IN  /\ last' = [r EXCEPT !.op = "process_command", !.input = user_input]
        /\ commands' = IF r.tier = 2 /\ r.invoked # <<>>
                       THEN DictSet(commands, Strip(Lower(user_input)), r.invoked[1])
                       ELSE commands
        /\ UNCHANGED <<returned, turnVars, aliases, nregs, conversation_history, appended, sessionVars>>

ProcessCommandCall(user_input) ==
    /\ last' = [ProcessCommand(commands, aliases, user_input) EXCEPT
                    !.op = "process_command", !.input = user_input]
    /\ UNCHANGED <<returned, turnVars, registryVars, conversation_history, appended, sessionVars>>

NextRegistry ==
    \/ \E command \in RegNames, handler \in RegHandlers, alias_list \in RegAliasLists :
           RegisterCommandCall(command, handler, alias_list)
    \/ \E user_input \in ProcInputs : ProcessCommandCall(user_input)

SpecRegistry == InitRegistry /\ [][NextRegistry]_vars

-----------------------------------------------------------------------------
(* JARVISAssistant.                                                        *)
(*                                                                         *)
(* What the environment does to one loop iteration is the `fault` of the   *)
(* iteration:                                                              *)
(*   none                no fault                                          *)
(*   input_none          listen() returns None (voice loop)                *)
(*   input_error         acquiring the input raises an Exception           *)
(*   input_interrupt     KeyboardInterrupt while acquiring the input       *)
(*   resolve_interrupt   KeyboardInterrupt in process_input, before the    *)
(*                       command is resolved                               *)
(*   fallback_interrupt  KeyboardInterrupt in generate_response, between   *)
(*                       its two add_to_history calls                      *)
(*   emit_error          print or speak raises an Exception while          *)
(*                       process_input emits the reply                     *)

Faults ==
    {"none", "input_none", "input_error", "input_interrupt",
     "resolve_interrupt", "fallback_interrupt", "emit_error"}

\* the list both loops test the utterance against
ExitPhrases ==
    { <<"e","x","i","t">>, <<"q","u","i","t">>, <<"s","t","o","p">>,
      <<"g","o","o","d","b","y","e">> }

\* the exit test by containment instead of equality
IsExitCommand_Contains(user_input) ==
    \E phrase \in ExitPhrases : Contains(phrase, Lower(user_input))

\* user_input.lower() in ['exit', 'quit', 'stop', 'goodbye']
IsExitCommand(user_input) == Lower(user_input) \in ExitPhrases

\* print(f"JARVIS: {reply}") and, with voice enabled, speak(reply, async_mode=True)
EmitReply(voice) == IF voice THEN <<"reply", "speak_async">> ELSE <<"reply">>

\* process_input testing `if command_response is not None:`
ProcessInput_RepliesWithAnyOutput(cmds, als, history, voice, user_input, fault) ==
    LET r == [ProcessCommand(cmds, als, user_input) EXCEPT
                  !.acquired = TRUE, !.emitted = <<"user">>]
        failed(kind) == [r EXCEPT !.raised = kind, !.none = TRUE, !.value = <<>>]
    IN  IF fault = "resolve_interrupt"
        THEN [call |-> [NoCall EXCEPT !.acquired = TRUE, !.emitted = <<"user">>,
                                      !.raised = "interrupt"],
              history |-> history]
        ELSE IF r.raised # "no"
        THEN [call |-> r, history |-> history]
        ELSE IF ~r.none
        THEN IF fault = "emit_error"
             THEN [call |-> failed("error"), history |-> history]
             ELSE [call |-> [r EXCEPT !.emitted = @ \o EmitReply(voice)],
                   history |-> history]
        ELSE LET g == GenerateResponse(history, user_input)
             IN  IF fault = "fallback_interrupt"
                 THEN [call |-> failed("interrupt"),
                       history |-> AddToHistory(history, "user", user_input)]
                 ELSE IF fault = "emit_error"
                 THEN [call |-> failed("error"), history |-> g.history]
                 ELSE [call |-> [r EXCEPT !.none = FALSE, !.value = g.response,
                                          !.emitted = @ \o EmitReply(voice)],
                       history |-> g.history]

\* process_input(user_input): the record of the call and the history afterwards
ProcessInput(cmds, als, history, voice, user_input, fault) ==
    LET r == [ProcessCommand(cmds, als, user_input) EXCEPT
                  !.acquired = TRUE, !.emitted = <<"user">>]
        failed(kind) == [r EXCEPT !.raised = kind, !.none = TRUE, !.value = <<>>]
    IN  IF fault = "resolve_interrupt"
        THEN [call |-> [NoCall EXCEPT !.acquired = TRUE, !.emitted = <<"user">>,
                                      !.raised = "interrupt"],
              history |-> history]
        ELSE IF r.raised # "no"
        THEN [call |-> r, history |-> history]
        ELSE IF ~r.none /\ r.value # <<>>                 \* if command_response:
        THEN IF fault = "emit_error"
             THEN [call |-> failed("error"), history |-> history]
             ELSE [call |-> [r EXCEPT !.emitted = @ \o EmitReply(voice)],
                   history |-> history]
        ELSE LET g == GenerateResponse(history, user_input)
             IN  IF fault = "fallback_interrupt"
                 THEN [call |-> failed("interrupt"),
                       history |-> AddToHistory(history, "user", user_input)]
                 ELSE IF fault = "emit_error"
                 THEN [call |-> failed("error"), history |-> g.history]
                 ELSE [call |-> [r EXCEPT !.none = FALSE, !.value = g.response,
                                          !.emitted = @ \o EmitReply(voice)],
                       history |-> g.history]

\* the except clauses with KeyboardInterrupt handled like any other error
LoopExcept_InterruptContinues(raised) == "continue"

\* the except clauses with `except Exception` missing
LoopExcept_NoCatch(raised) ==
    IF raised = "interrupt" THEN "break" ELSE "propagate"

\* the except clauses of both loops: KeyboardInterrupt breaks, any other
\* Exception is printed and the loop goes on
LoopExcept(raised) ==
    IF raised = "interrupt" THEN "break" ELSE "continue"

\* the except clauses starting the conversation afresh after an error
Caught_ClearsLedger(call, history, raised) ==
    LET reaction == LoopExcept(raised)
    IN  [call |-> [call EXCEPT !.raised = raised,
                               !.emitted = @ \o (CASE reaction = "break" -> <<"interrupted">>
                                                   [] reaction = "continue" -> <<"error">>
                                                   [] OTHER -> <<>>)],
         history |-> IF reaction = "continue" THEN <<>> ELSE history,
         is_running |-> IF reaction = "break" THEN FALSE ELSE is_running,
         exit_flag |-> exit_flag,
         reaction |-> reaction]

\* the except clauses giving up after an error: is_running is set to False
\* whatever was raised
Caught_StopsOnError(call, history, raised) ==
    LET reaction == LoopExcept(raised)
    IN  [call |-> [call EXCEPT !.raised = raised,
                               !.emitted = @ \o (CASE reaction = "break" -> <<"interrupted">>
                                                   [] reaction = "continue" -> <<"error">>
                                                   [] OTHER -> <<>>)],
         history |-> history,
         is_running |-> FALSE,
         exit_flag |-> exit_flag,
         reaction |-> reaction]

\* an iteration in which `raised` was raised: what the except clause leaves
Caught(call, history, raised) ==
    LET reaction == LoopExcept(raised)
    IN  [call |-> [call EXCEPT !.raised = raised,
                               !.emitted = @ \o (CASE reaction = "break" -> <<"interrupted">>
                                                   [] reaction = "continue" -> <<"error">>
                                                   [] OTHER -> <<>>)],
         history |-> history,
         is_running |-> IF reaction = "break" THEN FALSE ELSE is_running,
         exit_flag |-> exit_flag,
         reaction |-> reaction]

\* an iteration that ran to its end
Completed(call, history, running, exit) ==
    [call |-> call, history |-> history, is_running |-> running,
     exit_flag |-> exit, reaction |-> "next"]

\* speak("Goodbye!", async_mode=False) with voice enabled, then print("Shutting down...")
Farewell(voice) ==
    IF voice THEN <<"speak_goodbye", "shutting_down">> ELSE <<"shutting_down">>

\* the body of the while loop of text_interaction_loop
TextLoopBody(raw, fault) ==
    LET user_input == Strip(raw)
    IN  IF fault = "input_interrupt"
        THEN Caught(NoCall, conversation_history, "interrupt")
        ELSE IF fault = "input_error"
        THEN Caught(NoCall, conversation_history, "error")
        ELSE IF user_input = <<>>
        THEN Completed([NoCall EXCEPT !.input = raw], conversation_history,
                       is_running, exit_flag)
        ELSE LET p == ProcessInput(commands, aliases, conversation_history,
                                   enable_voice, user_input, fault)
                 call == [p.call EXCEPT !.input = raw]
             IN  IF call.raised # "no"
                 THEN Caught(call, p.history, call.raised)
                 ELSE IF IsExitCommand(user_input)
                 THEN Completed([call EXCEPT !.emitted = @ \o Farewell(enable_voice)],
                                p.history, FALSE, TRUE)
                 ELSE Completed(call, p.history, is_running, exit_flag)

\* the body of the while loop of voice_interaction_loop
VoiceLoopBody(raw, fault) ==
    IF fault = "input_interrupt"
    THEN Caught(NoCall, conversation_history, "interrupt")
    ELSE IF fault = "input_error"
    THEN Caught(NoCall, conversation_history, "error")
    ELSE IF fault = "input_none"
    THEN Completed(NoCall, conversation_history, is_running, exit_flag)
    ELSE LET p == ProcessInput(commands, aliases, conversation_history,
                               enable_voice, raw, fault)
             call == [p.call EXCEPT !.input = raw]
         IN  IF call.raised # "no"
             THEN Caught(call, p.history, call.raised)
             ELSE IF IsExitCommand(raw)
             THEN Completed(call, p.history, FALSE, TRUE)
             ELSE Completed(call, p.history, is_running, exit_flag)

-----------------------------------------------------------------------------
(* Spec: a JARVISAssistant whose run(), text_interaction_loop() and        *)
(* voice_interaction_loop() are called, any number of times, and whose     *)
(* registry callers extend with register_command.                          *)

\* what input() or listen() returns
Utterances ==
    { <<"e","x","i","t">>, <<" ","Q","u","i","t"," ">>,
      <<"p","l","e","a","s","e"," ","e","x","i","t"," ","n","o","w">>,
      <<"s","t","o","p"," ","t","h","e"," ","m","u","s","i","c">>,
      <<"h","e","l","l","o"," ","t","h","e","r","e">>,
      <<"m","u","t","e">>, <<>> }

\* registrations made while the session lives: the exit command re-bound to
\* a handler that raises, and a command whose handler returns ""
SessionRegs ==
    { << <<"e","x","i","t">>, "h_raise", <<>> >>,
      << <<"m","u","t","e">>, "h_empty", <<>> >> }

\* the state after one loop iteration
Iterate(op, b) ==
    /\ Len(b.history) <= MaxSessionLedger
    /\ last' = [b.call EXCEPT !.op = op]
    /\ conversation_history' = b.history
    /\ exit_flag' = b.exit_flag
    /\ terminated' = (terminated \/ b.exit_flag \/ b.reaction = "break")
    /\ IF b.reaction = "propagate"
       THEN \* the exception leaves the loop; run() prints it and shuts down
            /\ loop' = "none"
            /\ caller' = "none"
            /\ is_running' = IF caller = "run" THEN FALSE ELSE b.is_running
       ELSE /\ is_running' = b.is_running
            /\ UNCHANGED <<loop, caller>>
    /\ UNCHANGED <<returned, turnVars, registryVars, enable_voice, voice_engines,
                   appended>>

\* run(mode), up to the first test of the loop condition
Run(mode) ==
    /\ loop = "none"
    /\ loop' = IF mode = "voice" /\ enable_voice THEN "voice" ELSE "text"
    /\ caller' = "run"
    /\ is_running' = TRUE
    /\ last' = [NoCall EXCEPT !.op = "run"]
    /\ UNCHANGED <<returned, turnVars, registryVars, conversation_history, appended, exit_flag,
                   enable_voice, voice_engines, terminated>>

\* text_interaction_loop() or voice_interaction_loop() called directly
CallLoop(target) ==
    /\ loop = "none"
    /\ loop' = target
    /\ caller' = "direct"
    /\ is_running' = TRUE
    /\ last' = [NoCall EXCEPT !.op = "call_loop"]
    /\ UNCHANGED <<returned, turnVars, registryVars, conversation_history, appended, exit_flag,
                   enable_voice, voice_engines, terminated>>

\* while self.is_running and not self.exit_flag
LoopCondition == is_running /\ ~exit_flag

\* an iteration whose acquisition yields no utterance reads no `raw`
NothingAcquired(fault) == fault \in {"input_none", "input_error", "input_interrupt"}

TextIteration(raw, fault) ==
    /\ loop = "text"
    /\ LoopCondition
    /\ fault # "input_none"
    /\ NothingAcquired(fault) => raw = <<>>
    /\ Iterate("text_iteration", TextLoopBody(raw, fault))

\* without the voice engines there is no self.voice_recognition: the
\* attribute lookup raises
VoiceIteration(raw, fault) ==
    /\ loop = "voice"
    /\ LoopCondition
    /\ ~voice_engines => fault = "input_error"
    /\ NothingAcquired(fault) => raw = <<>>
    /\ Iterate("voice_iteration", VoiceLoopBody(raw, fault))

\* the loop condition is false: the loop function returns; run() then
\* executes shutdown()
LoopReturn ==
    /\ loop # "none"
    /\ ~LoopCondition
    /\ loop' = "none"
    /\ caller' = "none"
    /\ is_running' = IF caller = "run" THEN FALSE ELSE is_running
    /\ last' = [NoCall EXCEPT !.op = "return"]
    /\ UNCHANGED <<returned, turnVars, registryVars, conversation_history, appended, exit_flag,
                   enable_voice, voice_engines, terminated>>

Next ==
    \/ \E mode \in {"text", "voice"} : Run(mode)
    \/ \E target \in {"text", "voice"} : CallLoop(target)
    \/ \E raw \in Utterances, fault \in Faults : TextIteration(raw, fault)
    \/ \E raw \in Utterances, fault \in Faults : VoiceIteration(raw, fault)
    \/ LoopReturn
    \/ \E reg \in SessionRegs : RegisterCommandCall(reg[1], reg[2], reg[3])

Spec == InitAssistant /\ [][Next]_vars

-----------------------------------------------------------------------------
(* SpecTurn: the two loops taken statement by statement.  The control      *)
(* thread acquires an utterance, resolves it (process_command and, on a    *)
(* miss, generate_response with its two ledger appends), emits the reply   *)
(* and tests the utterance for an exit phrase; with voice enabled, emitting *)
(* starts a daemon thread that speaks the reply and ends on its own.  Each *)
(* step is written to `log` with the number of its turn.                   *)

MaxTurns == 2

\* the loop body with the exit test ahead of the reply's emission
StepAfter_ExitCheckFirst(step) ==
    CASE step = "acquire" -> "resolve"
      [] step = "resolve" -> "exit_check"
      [] step = "exit_check" -> "emit"
      [] OTHER -> "while"

\* the statement that follows `step` in the loop body and in process_input
StepAfter(step) ==
    CASE step = "acquire" -> "resolve"
      [] step = "resolve" -> "emit"
      [] step = "emit" -> "exit_check"
      [] OTHER -> "while"

\* the number of the turn in progress: the utterances acquired so far
TurnNo == Cardinality({ i \in 1..Len(log) : log[i].step = "acquire" })

\* the utterance as the loop passes it on: trimmed by the text loop only
LoopInput(raw) == IF loop = "text" THEN Strip(raw) ELSE raw

\* user_input = input("You: ").strip() / listen(timeout=5), with the test
\* that skips an empty (text) or None (voice) acquisition
Acquire(raw) ==
    /\ pc = "while"
    /\ loop \in {"text", "voice"}
    /\ LoopCondition
    /\ TurnNo < MaxTurns
    /\ loop = "voice" => enable_voice
    /\ loop = "text" => LoopInput(raw) # <<>>
    /\ last' = [NoCall EXCEPT !.op = "acquire", !.input = raw, !.acquired = TRUE]
    /\ log' = Append(log, [turn |-> TurnNo + 1, step |-> "acquire"])
    /\ pc' = StepAfter("acquire")
    /\ UNCHANGED <<returned, speaking, registryVars, conversation_history, appended,
                   sessionVars>>

\* process_input up to the reply: process_command and, on a miss,
\* generate_response; a handler that raises sends the loop to its except
\* clause and on to the next iteration
Resolve ==
    /\ pc = "resolve"
    /\ LET p == ProcessInput(commands, aliases, conversation_history, enable_voice,
                             LoopInput(last.input), "none")
           appends == IF p.history = conversation_history THEN <<>>
                      ELSE << [turn |-> TurnNo, step |-> "append"],
                              [turn |-> TurnNo, step |-> "append"] >>
       IN  /\ conversation_history' = p.history
           /\ last' = [p.call EXCEPT !.op = "resolve", !.input = last.input,
                                     !.emitted = <<"user">>]
           /\ log' = Append(log, [turn |-> TurnNo, step |-> "resolve"]) \o appends
           /\ pc' = IF p.call.raised # "no" THEN "while" ELSE StepAfter("resolve")
    /\ UNCHANGED <<returned, speaking, registryVars, appended, sessionVars>>

\* print(reply) and, with voice enabled, speak(reply, async_mode=True),
\* which starts the speech thread and returns
Emit ==
    /\ pc = "emit"
    /\ last' = [last EXCEPT !.op = "emit", !.emitted = @ \o EmitReply(enable_voice)]
    /\ speaking' = IF enable_voice THEN speaking \cup {TurnNo} ELSE speaking
    /\ log' = Append(log, [turn |-> TurnNo, step |-> "emit"])
    /\ pc' = StepAfter("emit")
    /\ UNCHANGED <<returned, registryVars, conversation_history, appended, sessionVars>>

\* the text loop speaks its farewell with async_mode=False: the control
\* thread itself runs _speak_sync and goes on when the speech has ended
SpeaksFarewell(exit) == exit /\ loop = "text" /\ enable_voice

\* the exit test that ends the loop body; on an exit phrase the text loop
\* goes on to its farewell
ExitCheck ==
    /\ pc = "exit_check"
    /\ LET exit == IsExitCommand(LoopInput(last.input))
       IN  /\ is_running' = IF exit THEN FALSE ELSE is_running
           /\ exit_flag' = IF exit THEN TRUE ELSE exit_flag
           /\ terminated' = (terminated \/ exit)
           /\ last' = [last EXCEPT !.op = "exit_check",
                                   !.emitted = IF exit /\ loop = "text" /\ ~enable_voice
                                               THEN @ \o Farewell(FALSE) ELSE @]
           /\ pc' = IF SpeaksFarewell(exit) THEN "speak_goodbye"
                    ELSE StepAfter("exit_check")
    /\ log' = Append(log, [turn |-> TurnNo, step |-> "exit_check"])
    /\ UNCHANGED <<returned, speaking, registryVars, conversation_history, appended,
                   enable_voice, voice_engines, loop, caller>>

\* speak("Goodbye!", async_mode=False) returns (a failure of the engine is
\* caught and printed inside _speak_sync), then print("Shutting down...")
FarewellSpoken ==
    /\ pc = "speak_goodbye"
    /\ last' = [last EXCEPT !.op = "farewell", !.emitted = @ \o Farewell(TRUE)]
    /\ pc' = StepAfter("exit_check")
    /\ UNCHANGED <<returned, speaking, log, registryVars, conversation_history,
                   appended, sessionVars>>

\* the speech thread of turn k ends (_speak_sync returns)
SpeechDone(k) ==
    /\ k \in speaking
    /\ speaking' = speaking \ {k}
    /\ log' = Append(log, [turn |-> k, step |-> "spoken"])
    /\ UNCHANGED <<returned, pc, last, registryVars, conversation_history, appended,
                   sessionVars>>

\* the engine raises in the speech thread of turn k: _speak_sync catches
\* the exception, prints it and returns
SpeechFails(k) ==
    /\ k \in speaking
    /\ speaking' = speaking \ {k}
    /\ log' = Append(log, [turn |-> k, step |-> "speech_error"])
    /\ UNCHANGED <<returned, pc, last, registryVars, conversation_history, appended,
                   sessionVars>>

NextTurn ==
    \/ \E mode \in {"text", "voice"} : Run(mode)
    \/ \E raw \in Utterances : Acquire(raw)
    \/ Resolve
    \/ Emit
    \/ ExitCheck
    \/ FarewellSpoken
    \/ \E k \in 1..MaxTurns : SpeechDone(k)
    \/ \E k \in 1..MaxTurns : SpeechFails(k)
    \/ pc = "while" /\ LoopReturn

SpecTurn == InitAssistant /\ [][NextTurn]_vars

-----------------------------------------------------------------------------
(* SpecExecute: the CommandHandler of commands.py, driven by execute       *)
(* calls.  `commands` is its table, `log` the calls made: the command      *)
(* passed and the number of positional arguments.                          *)

MaxExecutes == 2

\* _register_commands: the table, in the order of the dict literal
CommandTable ==
    << << <<"o","p","e","n">>, "open_application" >>,
       << <<"l","a","u","n","c","h">>, "open_application" >>,
       << <<"s","e","a","r","c","h">>, "web_search" >>,
       << <<"g","o","o","g","l","e">>, "google_search" >>,
       << <<"w","i","k","i","p","e","d","i","a">>, "wikipedia_search" >>,
       << <<"t","i","m","e">>, "tell_time" >>,
       << <<"d","a","t","e">>, "tell_date" >>,
       << <<"n","o","w">>, "tell_current_datetime" >>,
       << <<"w","e","a","t","h","e","r">>, "get_weather" >>,
       << <<"f","o","r","e","c","a","s","t">>, "get_weather_forecast" >>,
       << <<"h","e","l","p">>, "show_help" >>,
       << <<"c","o","m","m","a","n","d","s">>, "list_commands" >> >>

\* the positional arguments each method takes besides self: fewest and most
MethodArgs(h) ==
    CASE h \in {"open_application", "google_search", "wikipedia_search"} -> <<1, 1>>
      [] h = "web_search" -> <<1, 2>>
      [] h \in {"get_weather", "get_weather_forecast"} -> <<0, 2>>
      [] OTHER -> <<0, 0>>

\* handler(*args): a call with too few or too many arguments raises TypeError
MethodRaises(h, nargs) == nargs < MethodArgs(h)[1] \/ nargs > MethodArgs(h)[2]

\* f"Command '{command}' not found. Type 'help' for available commands."
NotFoundMessage(command) ==
    <<"C","o","m","m","a","n","d"," ","'">> \o command \o
    <<"'"," ","n","o","t"," ","f","o","u","n","d","."," ","T","y","p","e"," ","'","h","e","l","p","'"," ","f","o","r"," ","a","v","a","i","l","a","b","l","e"," ","c","o","m","m","a","n","d","s",".">>

ErrorPrefix ==
    <<"E","r","r","o","r"," ","e","x","e","c","u","t","i","n","g"," ","c","o","m","m","a","n","d"," ","'">>

\* f"Error executing command '{command}': {str(e)}"
ErrorMessage(command) == ErrorPrefix \o command \o <<"'",":"," ">> \o <<"str(e)">>

\* execute looking the command up by containment, as process_command does
Execute_Contains(table, command, nargs) ==
    LET cmd == Strip(Lower(command))
        hits == { i \in 1..Len(table) : Contains(table[i][1], cmd) }
    IN  IF hits = {}
        THEN [NoCall EXCEPT !.none = FALSE, !.value = NotFoundMessage(cmd)]
        ELSE LET h == table[CHOOSE i \in hits : \A j \in hits : i <= j][2]
             IN  IF MethodRaises(h, nargs)
                 THEN [NoCall EXCEPT !.invoked = <<h>>, !.none = FALSE,
                                     !.value = ErrorMessage(cmd)]
                 ELSE [NoCall EXCEPT !.invoked = <<h>>, !.none = FALSE,
                                     !.value = <<"result", h>>]

\* execute(command, *args)
Execute(table, command, nargs) ==
    LET cmd == Strip(Lower(command))
    IN  IF cmd \notin DictKeys(table)
        THEN [NoCall EXCEPT !.none = FALSE, !.value = NotFoundMessage(cmd)]
        ELSE LET h == DictGet(table, cmd)
             IN  IF MethodRaises(h, nargs)
                 THEN [NoCall EXCEPT !.invoked = <<h>>, !.none = FALSE,
                                     !.value = ErrorMessage(cmd)]
                 ELSE [NoCall EXCEPT !.invoked = <<h>>, !.none = FALSE,
                                     !.value = <<"result", h>>]

\* commands passed to execute
ExecCommands ==
    { <<"o","p","e","n">>, <<" ","O","p","e","n"," ">>,
      <<"o","p","e","n"," ","c","h","r","o","m","e">>,
      <<"t","i","m","e">>, <<"T","I","M","E">>, <<"s","e","a","r","c","h">>,
      <<"f","o","r","e","c","a","s","t">>, <<"h","e","l">>, <<>> }

ExecArgCounts == 0..2

\* CommandHandler(): no assistant is involved
InitExecute ==
    /\ commands = CommandTable
    /\ aliases = <<>>
    /\ conversation_history = <<>>
    /\ is_running = FALSE
    /\ exit_flag = FALSE
    /\ voice_engines = FALSE
    /\ enable_voice = FALSE
    /\ loop = "none"
    /\ caller = "none"
    /\ last = NoCall
    /\ appended = <<>>
    /\ nregs = 0
    /\ terminated = FALSE
    /\ returned = <<>>
    /\ pc = "while"
    /\ speaking = {}
    /\ log = <<>>

ExecuteCall(command, nargs) ==
    /\ Len(log) < MaxExecutes
    /\ last' = [Execute(commands, command, nargs) EXCEPT
                    !.op = "execute", !.input = command]
    /\ log' = Append(log, <<command, nargs>>)
    /\ UNCHANGED <<returned, pc, speaking, registryVars, conversation_history,
                   appended, sessionVars>>

NextExecute ==
    \E command \in ExecCommands, nargs \in ExecArgCounts : ExecuteCall(command, nargs)

SpecExecute == InitExecute /\ [][NextExecute]_vars

-----------------------------------------------------------------------------
(* SpecDialog: an assistant with the built-in registrations whose caller   *)
(* calls process_input and nothing else.  `appended` gains the two turns   *)
(* of every call that reaches generate_response.                           *)

MaxFallbackTurns == 6

\* the utterances passed to process_input: three that no tier matches and
\* a command
DialogInputs ==
    { <<"h","i">>, <<"w","h","y">>, <<>>, <<"t","i","m","e">> }

\* what can happen inside the call: nothing, or print/speak raising
DialogFaults == {"none", "emit_error"}

ProcessInputCall(user_input, fault) ==
    /\ Len(appended) < 2 * MaxFallbackTurns
    /\ LET c == ProcessCommand(commands, aliases, user_input)
           \* `if command_response:` fails and generate_response runs
           fallback == c.raised = "no" /\ (c.none \/ c.value = <<>>)
           r == ProcessInput(commands, aliases, conversation_history,
                             enable_voice, user_input, fault)
       IN  /\ last' = [r.call EXCEPT !.op = "process_input", !.input = user_input]
           /\ conversation_history' = r.history
           /\ appended' =
                 IF fallback
                 THEN appended \o
                        << [role |-> "user", content |-> user_input],
                           [role |-> "assistant",
                            content |-> GenerateSimpleResponse(user_input)] >>
                 ELSE appended
    /\ UNCHANGED <<returned, turnVars, registryVars, sessionVars>>

NextDialog ==
    \E user_input \in DialogInputs, fault \in DialogFaults :
        ProcessInputCall(user_input, fault)

SpecDialog == InitAssistant /\ [][NextDialog]_vars

-----------------------------------------------------------------------------
(* SpecRun: run() statement by statement.  `pc` is "while" in a loop and   *)
(* between run() calls, "except" at run()'s except clause and "finally"    *)
(* at its finally clause; `last.raised` holds the exception that is on its *)
(* way out of run(); `log` records the run() calls and the shutdown()      *)
(* calls made.                                                             *)

MaxRuns == 2

\* what a statement outside every try block of the loops can do: nothing,
\* raise an Exception (a failing print), or be cut by KeyboardInterrupt
RunFaults == {"none", "error", "interrupt"}

\* the utterances of the loops under run()
RunUtterances ==
    { <<"e","x","i","t">>, <<"h","e","l","l","o"," ","t","h","e","r","e">> }

\* where run() goes when an exception leaves the try block: `except
\* Exception` takes an Exception, anything else goes to `finally` at once
RunCatches(raised) == IF raised = "error" THEN "except" ELSE "finally"

\* shutdown() without its last statement
Shutdown_KeepsRunning(running, fault) ==
    IF fault = "none"
    THEN [is_running |-> running, raised |-> "no", step |-> "shutdown"]
    ELSE [is_running |-> running, raised |-> fault, step |-> "shutdown_raised"]

\* shutdown(): the prints, then self.is_running = False
Shutdown(running, fault) ==
    IF fault = "none"
    THEN [is_running |-> FALSE, raised |-> "no", step |-> "shutdown"]
    ELSE [is_running |-> running, raised |-> fault, step |-> "shutdown_raised"]

\* run(mode), up to the loop's `self.is_running = True`: the two prints
\* that precede it may fail
RunCall(mode, fault) ==
    /\ loop = "none" /\ pc = "while"
    /\ Cardinality({ i \in 1..Len(log) : log[i] = "run" }) < MaxRuns
    /\ caller' = "run"
    /\ log' = Append(log, "run")
    /\ IF fault = "none"
       THEN /\ loop' = IF mode = "voice" /\ enable_voice THEN "voice" ELSE "text"
            /\ is_running' = TRUE
            /\ last' = [NoCall EXCEPT !.op = "run"]
            /\ pc' = pc
       ELSE /\ last' = [NoCall EXCEPT !.op = "run", !.raised = fault]
            /\ pc' = RunCatches(fault)
            /\ UNCHANGED <<loop, is_running>>
    /\ UNCHANGED <<returned, speaking, registryVars, conversation_history, appended,
                   exit_flag, enable_voice, voice_engines, terminated>>

\* a print of one of the loop's except clauses fails or is interrupted: the
\* exception leaves the loop function
LoopRaises(fault) ==
    /\ loop # "none" /\ caller = "run" /\ pc = "while"
    /\ LoopCondition
    /\ fault # "none"
    /\ loop' = "none"
    /\ last' = [NoCall EXCEPT !.op = "run", !.raised = fault]
    /\ pc' = RunCatches(fault)
    /\ UNCHANGED <<returned, speaking, log, registryVars, conversation_history, appended,
                   is_running, exit_flag, enable_voice, voice_engines, caller, terminated>>

\* the loop condition is false or the loop was left by break: the loop
\* function returns to run()
LoopEnds ==
    /\ loop # "none" /\ caller = "run" /\ pc = "while"
    /\ ~LoopCondition
    /\ loop' = "none"
    /\ last' = [NoCall EXCEPT !.op = "run"]
    /\ pc' = "finally"
    /\ UNCHANGED <<returned, speaking, log, registryVars, conversation_history, appended,
                   is_running, exit_flag, enable_voice, voice_engines, caller, terminated>>

\* except Exception as e: print(f"Fatal error: {e}")
RunExcept(fault) ==
    /\ pc = "except"
    /\ last' = [last EXCEPT !.raised = IF fault = "none" THEN "no" ELSE fault,
                            !.emitted = IF fault = "none" THEN <<"fatal">> ELSE <<>>]
    /\ pc' = "finally"
    /\ UNCHANGED <<returned, speaking, log, registryVars, conversation_history, appended,
                   sessionVars>>

\* finally: self.shutdown(); then run() returns, or raises what shutdown()
\* raised or what was on its way out
RunFinally(fault) ==
    /\ pc = "finally"
    /\ LET s == Shutdown(is_running, fault)
       IN  /\ is_running' = s.is_running
           /\ log' = Append(log, s.step)
           /\ last' = [last EXCEPT !.op = "run_end",
                                   !.raised = IF s.raised # "no" THEN s.raised ELSE @]
    /\ caller' = "none"
    /\ pc' = "while"
    /\ UNCHANGED <<returned, speaking, registryVars, conversation_history, appended,
                   exit_flag, enable_voice, voice_engines, loop, terminated>>

NextRun ==
    \/ \E mode \in {"text", "voice"}, fault \in RunFaults : RunCall(mode, fault)
    \/ \E raw \in RunUtterances, fault \in Faults : TextIteration(raw, fault)
    \/ \E raw \in RunUtterances, fault \in Faults : VoiceIteration(raw, fault)
    \/ \E fault \in RunFaults : LoopRaises(fault)
    \/ LoopEnds
    \/ \E fault \in RunFaults : RunExcept(fault)
    \/ \E fault \in RunFaults : RunFinally(fault)

SpecRun == InitAssistant /\ [][NextRun]_vars

-----------------------------------------------------------------------------
(* SpecSave: an assistant whose ledger is appended to and whose            *)
(* save_conversation is called.  Here `returned` is the content of the     *)
(* file: <<>> while there is none.                                         *)

MaxSaveAppends == 3

\* what the sink does: accepts the record, cannot be opened, or fails
\* while the record is written
SinkFaults == {"none", "open_error", "write_error"}

\* json.dump of a character of a string (ensure_ascii is left True): a
\* quote and a non-ASCII character are written as escapes
JsonChar(c) ==
    CASE c = "\"" -> "\\\""
      [] c = "é" -> "\\u00e9"
      [] OTHER -> c

\* json.dump of the text of a turn
JsonString(s) == [i \in 1..Len(s) |-> JsonChar(s[i])]

\* json.dump of a turn: an object with the dict's keys in their order (the
\* roles are plain words)
JsonTurn(turn) == << <<"role", turn.role>>, <<"content", JsonString(turn.content)>> >>

\* json.dump({'timestamp': ..., 'conversation': get_history()}, f): the
\* timestamp is read as "now"
JsonRecord(history) ==
    [timestamp |-> "now",
     conversation |-> [p \in 1..Len(history) |-> JsonTurn(history[p])],
     complete |-> TRUE]

\* open(filename, 'w') has emptied the file and the dump did not finish
TruncatedFile == [timestamp |-> "now", conversation |-> <<>>, complete |-> FALSE]

\* save_conversation without its except clause
SaveConversation_NoCatch(history, file, fault) ==
    CASE fault = "open_error" ->
           [file |-> file, history |-> history, raised |-> "error", emitted |-> <<>>]
      [] fault = "write_error" ->
           [file |-> TruncatedFile, history |-> history, raised |-> "error",
            emitted |-> <<>>]
      [] OTHER ->
           [file |-> JsonRecord(history), history |-> history, raised |-> "no",
            emitted |-> <<"saved">>]

\* save_conversation(filename): the file and the ledger afterwards
SaveConversation(history, file, fault) ==
    CASE fault = "open_error" ->
           [file |-> file, history |-> history, raised |-> "no",
            emitted |-> <<"error">>]
      [] fault = "write_error" ->
           [file |-> TruncatedFile, history |-> history, raised |-> "no",
            emitted |-> <<"error">>]
      [] OTHER ->
           [file |-> JsonRecord(history), history |-> history, raised |-> "no",
            emitted |-> <<"saved">>]

\* the texts of the turns
SavedContents == { <<"h","i">>, <<"é","\"">> }

SaveConversationCall(fault) ==
    /\ LET s == SaveConversation(conversation_history, returned, fault)
       IN  /\ returned' = s.file
           /\ conversation_history' = s.history
           /\ last' = [NoCall EXCEPT !.op = "save_conversation", !.input = fault,
                                     !.raised = s.raised, !.emitted = s.emitted]
    /\ UNCHANGED <<turnVars, appended, registryVars, sessionVars>>

NextSave ==
    \/ \E role \in Roles, content \in SavedContents :
           Len(appended) < MaxSaveAppends /\ AddToHistoryCall(role, content)
    \/ \E fault \in SinkFaults : SaveConversationCall(fault)

SpecSave == InitAssistant /\ [][NextSave]_vars

-----------------------------------------------------------------------------
(* SpecForecast: get_weather_forecast called on a CommandHandler.  The     *)
(* call record holds the days passed (input), the requests sent (emitted)  *)
(* and the reply (value).                                                  *)

MaxForecastDays == 13

\* the days argument
ForecastDays == (0 - MaxForecastDays)..MaxForecastDays

\* how the services answer: the place is not found, the forecast request
\* times out, the forecast has no daily data, or it has data
ForecastOutcomes == {"no_location", "timeout", "no_data", "ok"}

\* min(max(days, 1), 10) without the max
ClampDays_UpperOnly(days) == IF days < 10 THEN days ELSE 10

\* days = min(max(days, 1), 10)
ClampDays(days) ==
    LET atleast == IF days > 1 THEN days ELSE 1
    IN  IF atleast < 10 THEN atleast ELSE 10

\* get_weather_forecast(location, days); `dates` is the number of days the
\* service returns data for
GetWeatherForecast(days, available, outcome, dates) ==
    IF ~available
    THEN [NoCall EXCEPT !.none = FALSE, !.value = <<"requests_missing">>]
    ELSE LET used == ClampDays(days)
             request == << "geocoding", <<"forecast_days", used>> >>
         IN  CASE outcome = "no_location" ->
                    [NoCall EXCEPT !.none = FALSE, !.value = <<"no_location">>,
                                   !.emitted = <<"geocoding">>]
               [] outcome = "timeout" ->
                    [NoCall EXCEPT !.none = FALSE, !.value = <<"timeout">>,
                                   !.emitted = request]
               [] outcome = "no_data" ->
                    [NoCall EXCEPT !.none = FALSE, !.value = <<"no_data">>,
                                   !.emitted = request]
               [] OTHER ->
                    \* the header names the days, range(min(days, len(dates)))
                    \* gives the lines
                    [NoCall EXCEPT !.none = FALSE,
                                   !.value = <<"forecast", used,
                                               IF used < dates THEN used ELSE dates>>,
                                   !.emitted = request]

GetWeatherForecastCall(days, available, outcome, dates) ==
    /\ last' = [GetWeatherForecast(days, available, outcome, dates) EXCEPT
                    !.op = "get_weather_forecast", !.input = days]
    /\ UNCHANGED <<returned, turnVars, registryVars, conversation_history, appended,
                   sessionVars>>

NextForecast ==
    \E days \in ForecastDays, available \in BOOLEAN, outcome \in ForecastOutcomes,
       dates \in {0, 2, 7, 16} :
        GetWeatherForecastCall(days, available, outcome, dates)

SpecForecast == InitExecute /\ [][NextForecast]_vars

-----------------------------------------------------------------------------
(* Claims about the ledger (SpecLedger).                                   *)

Min(a, b) == IF a <= b THEN a ELSE b

\* C1: after any sequence of add_to_history calls from an empty ledger, the
\* ledger's length is min(number of appends, 10) and the ledger holds
\* exactly the most recent 10 appended turns, in the order they were appended.
C1_LedgerKeepsMostRecent ==
    LET n == Min(Len(appended), 10)
    IN  /\ Len(conversation_history) = n
        /\ conversation_history = SubSeq(appended, Len(appended) - n + 1, Len(appended))

\* the 12th append has been made: turns 1 and 2 are evicted, and the turns
\* at both ends of the ledger differ from their neighbours
C1_Witness ==
    /\ Len(appended) = 12
    /\ conversation_history = SubSeq(appended, 3, 12)
    /\ appended[1].role # appended[3].role
    /\ appended[11].role # appended[12].role

-----------------------------------------------------------------------------
(* Claims about the registry and the resolver (SpecRegistry).  They read   *)
(* `last`, the record of the most recent process_command call; the         *)
(* registry has not changed since that call.                               *)

Resolved == last.op = "process_command"

\* the input as the resolver compares it: lowercased, whitespace trimmed
LastInput == Strip(Lower(last.input))

ExactMatch == LastInput \in DictKeys(commands)

AliasMatch == \E i \in 1..Len(aliases) : Contains(aliases[i][1], LastInput)

NameMatch == \E i \in 1..Len(commands) : Contains(commands[i][1], LastInput)

\* the call ran handler h alone and returned what h returns
Ran(h) ==
    /\ last.invoked = <<h>>
    /\ last.raised = "no"
    /\ ~last.none
    /\ last.value = HandlerReturn(h)

\* C2: for every name n that was passed to register_command (stored under
\* its lowercase form), process_command(n) runs the handler bound to n at
\* the exact-match tier and returns its output.
C2_RegisteredNameRunsItsHandler ==
    (Resolved /\ Lower(last.input) \in DictKeys(commands))
        => (last.tier = 1 /\ Ran(DictGet(commands, Lower(last.input))))

\* C3: the tiers are tried in a fixed order and the first match wins: an
\* input equal to a registered name runs that name's handler whatever
\* aliases or names it contains; otherwise a contained alias wins over every
\* contained name; the name-containment tier is used exactly when there is
\* neither an exact match nor a contained alias.
C3_TiersInOrder ==
    Resolved =>
        /\ ExactMatch => (last.tier = 1 /\ Ran(DictGet(commands, LastInput)))
        /\ (~ExactMatch /\ AliasMatch) =>
              /\ last.tier = 2
              /\ \E i \in 1..Len(aliases) :
                    /\ Contains(aliases[i][1], LastInput)
                    /\ Ran(DictGet(commands, aliases[i][2]))
        /\ last.tier = 3 => (~ExactMatch /\ ~AliasMatch /\ NameMatch)
        /\ (~ExactMatch /\ ~AliasMatch /\ NameMatch) => last.tier = 3
        /\ (~ExactMatch /\ ~AliasMatch /\ ~NameMatch) => (last.tier = 0 /\ last.none)

\* an input equal to a registered name, with an alias and another name as
\* substrings, whose handlers differ from the one that ran
C3_Witness ==
    /\ Resolved /\ ExactMatch /\ last.tier = 1
    /\ \E i \in 1..Len(aliases) :
          /\ Contains(aliases[i][1], LastInput)
          /\ DictGet(commands, aliases[i][2]) # DictGet(commands, LastInput)
    /\ \E i \in 1..Len(commands) :
          /\ commands[i][1] # LastInput
          /\ Contains(commands[i][1], LastInput)
          /\ commands[i][2] # DictGet(commands, LastInput)

\* C4: for every alias a bound to name n: when the input (as compared:
\* lowercased and trimmed) contains a, contains no registered name and
\* contains no alias that precedes a in the alias map, process_command
\* returns the output of n's handler.
C4_FirstContainedAliasRuns ==
    Resolved =>
        \A i \in 1..Len(aliases) :
            ( /\ Contains(aliases[i][1], LastInput)
              /\ ~NameMatch
              /\ \A j \in 1..(i - 1) : ~Contains(aliases[j][1], LastInput) )
            => /\ last.tier = 2
               /\ aliases[i][2] \in DictKeys(commands)
               /\ Ran(DictGet(commands, aliases[i][2]))

\* the alias tier chose between two contained aliases bound to names with
\* different handlers
C4_Witness ==
    /\ Resolved /\ ~NameMatch /\ last.tier = 2
    /\ \E i, j \in 1..Len(aliases) :
          /\ i < j
          /\ Contains(aliases[i][1], LastInput)
          /\ Contains(aliases[j][1], LastInput)
          /\ \A k \in 1..(i - 1) : ~Contains(aliases[k][1], LastInput)
          /\ DictGet(commands, aliases[i][2]) # DictGet(commands, aliases[j][2])
          /\ Ran(DictGet(commands, aliases[i][2]))

\* C5 as stated: when the input equals no registered name and contains no
\* alias, then for each registered name it contains, process_command returns
\* the output of that name's handler.
C5_EveryContainedNameRuns ==
    (Resolved /\ ~ExactMatch /\ ~AliasMatch) =>
        \A i \in 1..Len(commands) :
            Contains(commands[i][1], LastInput) => (last.tier = 3 /\ Ran(commands[i][2]))

\* C5 as amended: when the input equals no registered name, contains no
\* alias and contains a registered name, process_command returns, by the
\* name-containment tier, the output of the handler of the first name in
\* registration order that the input contains.
C5_FirstContainedNameRuns ==
    (Resolved /\ ~ExactMatch /\ ~AliasMatch /\ NameMatch) =>
        /\ last.tier = 3
        /\ \E i \in 1..Len(commands) :
              /\ Contains(commands[i][1], LastInput)
              /\ \A j \in 1..(i - 1) : ~Contains(commands[j][1], LastInput)
              /\ Ran(commands[i][2])

\* the name-containment tier chose between two contained names with
\* different handlers
C5_Witness ==
    /\ Resolved /\ ~ExactMatch /\ ~AliasMatch /\ last.tier = 3
    /\ \E i, j \in 1..Len(commands) :
          /\ i < j
          /\ Contains(commands[i][1], LastInput)
          /\ Contains(commands[j][1], LastInput)
          /\ commands[i][2] # commands[j][2]
          /\ Ran(commands[i][2])

-----------------------------------------------------------------------------
(* Claims about the session (Spec).  After a loop iteration `last` is the  *)
(* record of that iteration: the utterance, whether process_input was      *)
(* called with it (acquired), the handlers invoked, what was raised and    *)
(* what was emitted.                                                       *)

IterationOps == {"text_iteration", "voice_iteration"}

\* the state is the one a loop iteration has just produced
TurnDone == last.op \in IterationOps

\* the step is a loop iteration in which process_input was called
TurnStep ==
    /\ loop \in {"text", "voice"}
    /\ LoopCondition
    /\ last'.op \in IterationOps
    /\ last'.acquired

\* the utterance as process_input received it
Utterance(call) ==
    IF call.op = "text_iteration" THEN Strip(call.input) ELSE call.input

ContainsExitPhrase(s) == \E phrase \in ExitPhrases : Contains(phrase, s)

\* C6: in every turn that process_input handles (and returns from): if the
\* resolver invoked a handler, the turn leaves the ledger unchanged; if no
\* tier matched, the ledger gains exactly the user utterance followed by the
\* fallback reply.
C6_LedgerFollowsResolution ==
    [][ (TurnStep /\ last'.raised = "no") =>
          /\ last'.invoked # <<>> => conversation_history' = conversation_history
          /\ last'.invoked = <<>> =>
                conversation_history' =
                    conversation_history \o
                        << [role |-> "user", content |-> Utterance(last')],
                           [role |-> "assistant", content |-> last'.value] >>
      ]_vars

\* C7: a turn whose utterance contains an exit phrase without being equal
\* to one after normalization, and that no interrupt cuts short, leaves the
\* session Running: is_running true, exit_flag false, the loop still active.
C7_ContainedExitPhraseKeepsRunning ==
    ( /\ TurnDone /\ last.acquired /\ last.raised # "interrupt"
      /\ ContainsExitPhrase(LastInput)
      /\ LastInput \notin ExitPhrases )
    => (is_running /\ ~exit_flag /\ loop \in {"text", "voice"})

\* such a turn ran the exit command's handler and the session goes on
C7_Witness ==
    /\ TurnDone /\ last.acquired /\ last.raised = "no"
    /\ ContainsExitPhrase(LastInput)
    /\ LastInput \notin ExitPhrases
    /\ last.invoked = <<"_handle_exit">>
    /\ last.tier \in {2, 3}
    /\ is_running /\ ~exit_flag

\* C8: every loop iteration that acquires an utterance whose normalized
\* form is an exit phrase, and that no interrupt cuts short, ends with the
\* session Terminated: is_running false and exit_flag true.
C8_ExitPhraseTerminates ==
    ( /\ TurnDone /\ last.acquired /\ last.raised # "interrupt"
      /\ LastInput \in ExitPhrases )
    => (~is_running /\ exit_flag)

\* C9: once a loop has ended by an exit phrase or by an interrupt, no
\* utterance is processed by that instance any more, whatever is called.
C9_TerminatedIsLatched ==
    [][ terminated => ~TurnStep ]_vars

EmptyAcquisition(call) ==
    /\ call.op \in IterationOps
    /\ Strip(call.input) = <<>>
    /\ (call.acquired \/ call.raised = "no")

\* C11: in both loops, an iteration whose acquisition is None or a string
\* that is empty after trimming is a tick without input: process_input is
\* not called, no handler runs, no reply is made, the ledger is unchanged,
\* nothing is emitted and the session stays Running in the same loop.
C11_EmptyAcquisitionIsNoInput ==
    [][ EmptyAcquisition(last') =>
          /\ ~last'.acquired
          /\ last'.invoked = <<>>
          /\ last'.none
          /\ last'.emitted = <<>>
          /\ conversation_history' = conversation_history
          /\ is_running' /\ ~exit_flag'
          /\ loop' = loop
      ]_vars

\* the iteration emitted the turn's reply and, after it, the farewell
FarewellAfterReply(call) ==
    \E i, j \in 1..Len(call.emitted) :
        /\ i < j
        /\ call.emitted[i] = "reply"
        /\ call.emitted[j] = "shutting_down"

\* C12: in the text loop and in the voice loop alike, the iteration that
\* terminates the session on an exit phrase (it sets exit_flag) emits the
\* farewell after the turn's reply, and no loop iteration follows it.
C12_ExitEmitsFarewellAndStops ==
    [][ (TurnDone /\ exit_flag) =>
          /\ FarewellAfterReply(last)
          /\ last'.op \notin IterationOps
      ]_vars

\* a loop is active and was stopped by an interrupt: is_running is false
\* and no exit phrase set exit_flag
StoppedByInterrupt ==
    /\ loop \in {"text", "voice"}
    /\ ~is_running
    /\ ~exit_flag

\* C13: a KeyboardInterrupt in a loop iteration (while the input is
\* acquired, before the command is resolved, or between the two ledger
\* appends of the fallback) takes the session out of Running in that very
\* iteration: is_running is false, the interruption notice is the last thing
\* emitted and no farewell is emitted, and the ledger holds at most the user
\* turn appended before the interrupt.  Until the loop function returns, no
\* utterance is processed and the ledger is not modified.
C13_InterruptStopsTheLoop ==
    [][ /\ (last'.op \in IterationOps /\ last'.raised = "interrupt") =>
              /\ ~is_running'
              /\ loop' = loop
              /\ last'.emitted # <<>>
              /\ last'.emitted[Len(last'.emitted)] = "interrupted"
              /\ \A i \in 1..Len(last'.emitted) :
                    last'.emitted[i] \notin {"speak_goodbye", "shutting_down"}
              /\ \/ conversation_history' = conversation_history
                 \/ conversation_history' =
                        conversation_history \o
                            << [role |-> "user", content |-> Utterance(last')] >>
        /\ StoppedByInterrupt =>
              /\ last'.op \notin IterationOps
              /\ conversation_history' = conversation_history
      ]_vars

\* the interrupt arrived in the fallback, after the user turn was appended:
\* the loop is stopped and the ledger ends with that user turn
C13_Witness ==
    /\ TurnDone /\ last.acquired /\ last.raised = "interrupt"
    /\ StoppedByInterrupt
    /\ conversation_history # <<>>
    /\ conversation_history[Len(conversation_history)] =
           [role |-> "user", content |-> Utterance(last)]
    /\ last.emitted = <<"user", "interrupted">>

-----------------------------------------------------------------------------
(* Claims about registration (SpecRegistry).                               *)

\* the number of bindings the registry holds for `name`
Bindings(cmds, name) ==
    Cardinality({ i \in 1..Len(cmds) : cmds[i][1] = name })

\* C14: a register_command(name, h2) call for a name whose lowercase form
\* is already registered leaves exactly one binding for the lowercased
\* name, does not change the number of registered names, and makes
\* process_command(name) invoke h2 and nothing else.
C14_ReRegistrationReplaces ==
    [][ \A command \in RegNames, handler \in RegHandlers, alias_list \in RegAliasLists :
          ( /\ RegisterCommandCall(command, handler, alias_list)
            /\ Lower(command) \in DictKeys(commands) )
          => /\ Bindings(commands', Lower(command)) = 1
             /\ Len(commands') = Len(commands)
             /\ ProcessCommand(commands', aliases', command).invoked = <<handler>>
      ]_vars

\* the keys an alias list binds
AliasKeys(alias_list) == { Lower(alias_list[i]) : i \in 1..Len(alias_list) }

\* C15: every alias key is bound once.  A register_command call binds each
\* alias it lists (lowercased) to the lowercased name of that call, whether
\* or not the alias was bound before, and leaves alone every alias it does
\* not list and the handler of every other name.
C15_AliasBoundToLatestName ==
    [][ last'.op = "register_command" =>
          /\ \A k \in DictKeys(aliases) : Bindings(aliases, k) = 1
          /\ \A k \in DictKeys(aliases') : Bindings(aliases', k) = 1
          /\ \A handler \in RegHandlers, alias_list \in RegAliasLists :
                RegisterCommandCall(last'.input, handler, alias_list) =>
                    /\ DictKeys(aliases') = DictKeys(aliases) \cup AliasKeys(alias_list)
                    /\ \A k \in AliasKeys(alias_list) :
                          DictGet(aliases', k) = Lower(last'.input)
                    /\ \A k \in DictKeys(aliases) \ AliasKeys(alias_list) :
                          DictGet(aliases', k) = DictGet(aliases, k)
                    /\ \A k \in DictKeys(commands) \ {Lower(last'.input)} :
                          /\ k \in DictKeys(commands')
                          /\ DictGet(commands', k) = DictGet(commands, k)
      ]_vars

\* the alias "g" was bound to "go" together with "eg" and then re-bound to
\* "ego"; "eg" still names "go"
C15_Witness ==
    /\ last.op = "register_command"
    /\ nregs = 2
    /\ <<"g">> \in DictKeys(aliases)
    /\ <<"e","g">> \in DictKeys(aliases)
    /\ DictGet(aliases, <<"g">>) = <<"e","g","o">>
    /\ DictGet(aliases, <<"e","g">>) = <<"g","o">>
    /\ Lower(last.input) = <<"e","g","o">>

-----------------------------------------------------------------------------
(* More claims about the resolver (SpecRegistry).                          *)

\* C16: a process_command call leaves the registry as it found it, whether
\* or not a tier matched: the name-to-handler map and the alias-to-name map
\* are the same before and after the call.
C16_ResolutionLeavesRegistry ==
    [][ last'.op = "process_command" =>
            (commands' = commands /\ aliases' = aliases)
      ]_vars

\* a call matched by the alias tier on a registry the caller has extended
C16_Witness ==
    /\ Resolved
    /\ nregs = 2
    /\ Len(commands) > Len(DefaultRegistry.commands)
    /\ Len(aliases) > Len(DefaultRegistry.aliases)
    /\ last.tier = 2
    /\ last.invoked \in { <<"h_a">>, <<"h_b">> }

\* C17: a process_command call invokes at most one handler; it invokes none
\* and returns None exactly when the normalized input is no registered
\* name, contains no registered alias and contains no registered name.
C17_NoneExactlyWhenNothingMatches ==
    Resolved =>
        /\ Len(last.invoked) <= 1
        /\ (last.invoked = <<>>) <=> (~ExactMatch /\ ~AliasMatch /\ ~NameMatch)
        /\ (last.raised = "no" /\ last.none) <=> (~ExactMatch /\ ~AliasMatch /\ ~NameMatch)

\* a call on an input that only contains a registered name ran one handler,
\* where the input also contains a second name with another handler
C17_Witness ==
    /\ Resolved /\ ~ExactMatch /\ ~AliasMatch
    /\ Len(last.invoked) = 1 /\ ~last.none
    /\ \E i, j \in 1..Len(commands) :
          /\ i # j
          /\ Contains(commands[i][1], LastInput)
          /\ Contains(commands[j][1], LastInput)
          /\ commands[i][2] # commands[j][2]

-----------------------------------------------------------------------------
(* Claims about get_history (SpecHistory).                                 *)

\* C18: whatever the caller does to the list get_history gave it (append
\* or remove elements, assign the role or the content of one of its turns),
\* the ledger, which is what a later get_history returns, does not change;
\* and the ledger's turns are the turns as they were appended.
C18_ReturnedHistoryIsACopy ==
    [][ /\ last'.op = "caller_mutation" => conversation_history' = conversation_history
        /\ conversation_history' =
               SubSeq(appended', Len(appended') - Len(conversation_history') + 1,
                      Len(appended'))
      ]_vars

-----------------------------------------------------------------------------
(* Claims about the fallback responder (SpecResponder).                    *)

Responded == last.op = "generate_response"

\* the i-th pattern of the table occurs in the lowercased input
PatternOccurs(i) == Contains(responses[i][1], Lower(last.input))

DefaultPrefix ==
    <<"T","h","a","t","'","s"," ","i","n","t","e","r","e","s","t","i","n","g","."," ","I","'","m"," ","s","t","i","l","l"," ","l","e","a","r","n","i","n","g"," ","a","b","o","u","t"," ">>

\* C19: the reply of generate_response is a function of the input alone,
\* whatever the ledger holds: the reply of the first pattern, in table
\* order, that occurs in the lowercased input; when none occurs, the default
\* reply naming the first whitespace-delimited token of the input, or
\* "that" when the input is empty once trimmed.
C19_FallbackIsFirstPatternOrDefault ==
    Responded =>
        /\ \A i \in 1..Len(responses) :
              (PatternOccurs(i) /\ \A j \in 1..(i - 1) : ~PatternOccurs(j))
                  => last.value = responses[i][2]
        /\ (\A i \in 1..Len(responses) : ~PatternOccurs(i)) =>
              IF \A k \in 1..Len(last.input) : last.input[k] \in Whitespace
              THEN last.value = DefaultPrefix \o <<"t","h","a","t">> \o <<".">>
              ELSE \E a \in 0..Len(last.input), b \in 1..Len(last.input) :
                      /\ a < b
                      /\ \A k \in 1..a : last.input[k] \in Whitespace
                      /\ \A k \in (a + 1)..b : last.input[k] \notin Whitespace
                      /\ b = Len(last.input) \/ last.input[b + 1] \in Whitespace
                      /\ last.value = DefaultPrefix \o SubSeq(last.input, a + 1, b) \o <<".">>

\* the responder was called on a ledger that already held turns, with an
\* input in which a later pattern of the table occurs before an earlier
\* one, and answered with the earlier pattern's reply
C19_Witness ==
    /\ Responded
    /\ Len(conversation_history) > 2
    /\ last.input = <<"t","h","a","n","k","s",","," ","h","i">>
    /\ PatternOccurs(2) /\ PatternOccurs(7)
    /\ last.value = responses[2][2]

-----------------------------------------------------------------------------
(* Claims about the order of the steps of a session (SpecTurn).            *)

\* the steps the speech threads log
SpeechSteps == {"spoken", "speech_error"}

\* the place of a step of the control thread within its turn
Rank(step) ==
    CASE step = "acquire" -> 1
      [] step = "resolve" -> 2
      [] step = "append" -> 3
      [] step = "emit" -> 4
      [] OTHER -> 5

\* the log holds, before position j, the given step of the turn of log[j]
Preceded(j, step) ==
    \E i \in 1..(j - 1) : log[i].turn = log[j].turn /\ log[i].step = step

\* C20: the control thread takes the steps of a session one turn after the
\* other.  Every step it takes (the step is then the last of the log, which
\* only grows) comes after all the steps it took before: each of them
\* belongs to an earlier turn or to the same turn and an earlier place in
\* the order acquisition, resolution, ledger appends, reply emission, exit
\* check; and the step does not happen without the steps before it.  (The
\* speech threads are not steps of the control thread.)
C20_TurnsAreSequential ==
    \A j \in {Len(log)} \ {0} :
        log[j].step \notin SpeechSteps =>
            /\ \A i \in 1..(j - 1) :
                  \/ log[i].step \in SpeechSteps
                  \/ log[i].turn < log[j].turn
                  \/ /\ log[i].turn = log[j].turn
                     /\ \/ Rank(log[i].step) < Rank(log[j].step)
                        \/ log[i].step = "append" /\ log[j].step = "append"
            /\ log[j].step = "resolve" => Preceded(j, "acquire")
            /\ log[j].step = "append" => Preceded(j, "resolve")
            /\ log[j].step = "emit" => Preceded(j, "resolve")
            /\ log[j].step = "exit_check" => Preceded(j, "emit")

\* two whole turns were processed, the first with a fallback reply, and the
\* speech thread of the first turn ended while the second turn was under way
C20_Witness ==
    /\ pc = "while"
    /\ \E a, s, x \in 1..Len(log) :
          /\ a < s /\ s < x
          /\ log[a] = [turn |-> 2, step |-> "acquire"]
          /\ log[s] = [turn |-> 1, step |-> "spoken"]
          /\ log[x] = [turn |-> 2, step |-> "exit_check"]
    /\ \E i \in 1..Len(log) : log[i] = [turn |-> 1, step |-> "append"]

\* the step is one of a speech thread
SpeechStep == Len(log') = Len(log) + 1 /\ log'[Len(log')].step \in SpeechSteps

\* C21: the control thread is never inside a speech call waiting for it to
\* end; and a step of a speech thread, also one in which the engine fails,
\* changes nothing of the loop (its place, its flags, its current call), of
\* the registry or of the ledger.
C21_SpeechIsFireAndForget ==
    [][ /\ pc' # "speak_goodbye"
        /\ SpeechStep =>
              /\ pc' = pc
              /\ last' = last
              /\ is_running' = is_running /\ exit_flag' = exit_flag
              /\ loop' = loop
              /\ commands' = commands /\ aliases' = aliases
              /\ conversation_history' = conversation_history
      ]_vars

-----------------------------------------------------------------------------
(* Claims about the voice engines (Spec).                                  *)

\* the iteration called text_to_speech
Spoke(call) ==
    \E i \in 1..Len(call.emitted) : call.emitted[i] \in {"speak_async", "speak_goodbye"}

\* C22: when __init__ could not make the voice engines, or voice was not
\* asked for, enable_voice is false; with enable_voice false run('voice')
\* enters the text loop, and no loop iteration calls text_to_speech or
\* obtains an utterance from the voice recognizer.
C22_NoVoiceMeansTextOnly ==
    [][ /\ ~voice_engines => ~enable_voice
        /\ (~enable_voice /\ Run("voice")) => (loop' = "text" /\ is_running')
        /\ (~enable_voice' /\ last'.op \in IterationOps) =>
              /\ ~Spoke(last')
              /\ last'.op = "voice_iteration" => ~last'.acquired
      ]_vars

\* without voice engines, a loop started by run() answered an utterance
\* in the text loop, printing the reply only
C22_Witness ==
    /\ ~voice_engines /\ ~enable_voice
    /\ caller = "run" /\ loop = "text"
    /\ last.op = "text_iteration" /\ last.acquired /\ last.raised = "no"
    /\ last.emitted = <<"user", "reply">>

-----------------------------------------------------------------------------
(* More claims about the session (Spec).                                   *)

HandlerRaised(call) ==
    /\ call.raised = "error"
    /\ call.invoked # <<>>
    /\ HandlerRaises(call.invoked[1])

\* C24: a loop iteration in which a command handler raises leaves the
\* ledger, the registry, is_running and exit_flag as they were; with the
\* voice setting, which it leaves too, these are all that a later
\* process_input call reads, so the next utterance is processed as it would
\* have been without the failed turn.
C24_HandlerErrorLeavesNoTrace ==
    [][ (last'.op \in IterationOps /\ HandlerRaised(last')) =>
          /\ conversation_history' = conversation_history
          /\ commands' = commands /\ aliases' = aliases
          /\ is_running' = is_running /\ exit_flag' = exit_flag
          /\ enable_voice' = enable_voice
      ]_vars

\* the handler bound to the exit command raised on an exit phrase, in a
\* session whose ledger holds an exchange
C24_Witness ==
    /\ TurnDone /\ last.acquired /\ last.raised = "error"
    /\ last.invoked = <<"h_raise">>
    /\ LastInput \in ExitPhrases
    /\ Len(conversation_history) = 2
    /\ is_running /\ ~exit_flag

-----------------------------------------------------------------------------
(* Claim about clear_history (SpecClear).                                  *)

RECURSIVE Replay(_)
\* the ledger a newly created engine holds after these appends
Replay(turns) ==
    IF turns = <<>> THEN <<>>
    ELSE LET n == Len(turns)
         IN  AddToHistory(Replay(SubSeq(turns, 1, n - 1)), turns[n].role, turns[n].content)

\* C25: clear_history leaves a ledger of length 0 whatever the ledger held,
\* and from then on the ledger is the one a newly created engine would hold
\* after the same appends: at most 10 turns, the oldest evicted first.
C25_ClearedLedgerIsAFreshLedger ==
    /\ (last.op = "clear_history" => Len(conversation_history) = 0)
    /\ conversation_history = Replay(appended)
    /\ Len(conversation_history) <= max_history

\* the ledger was cleared and 11 turns were appended after it: the first of
\* them is evicted
C25_Witness ==
    /\ log # <<>>
    /\ last.op = "add_to_history"
    /\ Len(appended) = 11
    /\ conversation_history = SubSeq(appended, 2, 11)
    /\ appended[1].role # appended[2].role

\* the keys of a mapping in iteration order
KeyOrder(d) == [i \in 1..Len(d) |-> d[i][1]]

IsPrefix(s, t) == Len(s) <= Len(t) /\ SubSeq(t, 1, Len(s)) = s

\* the i-th entry of d is the first, in iteration order, whose key is in s
FirstAt(d, s, i) ==
    /\ Contains(d[i][1], s)
    /\ \A j \in 1..(i - 1) : ~Contains(d[j][1], s)

\* C26: resolution is deterministic: a process_command call that follows
\* another with the same input invokes the same handler; a call decided
\* among several contained aliases invokes the handler of the one inserted
\* into the alias map first; and register_command leaves the keys that were
\* in the alias map (and in the command map) at their positions, adding new
\* keys after them, so re-binding an alias does not change its position.
C26_ResolutionIsDeterministic ==
    [][ /\ (last.op = "process_command" /\ last'.op = "process_command"
              /\ last'.input = last.input)
           => (last'.invoked = last.invoked /\ last'.tier = last.tier)
        /\ (last'.op = "process_command" /\ last'.tier = 2)
           => \E inp \in {Strip(Lower(last'.input))} :
                 \E i \in 1..Len(aliases) :
                    /\ FirstAt(aliases, inp, i)
                    /\ last'.invoked = <<DictGet(commands, aliases[i][2])>>
        /\ (last'.op = "process_command" /\ last'.tier = 3)
           => \E inp \in {Strip(Lower(last'.input))} :
                 \E i \in 1..Len(commands) :
                    /\ FirstAt(commands, inp, i)
                    /\ last'.invoked = <<commands[i][2]>>
        /\ last'.op = "register_command"
           => /\ IsPrefix(KeyOrder(aliases), KeyOrder(aliases'))
              /\ IsPrefix(KeyOrder(commands), KeyOrder(commands'))
      ]_vars

\* the built-in alias "quit" was re-bound to a caller's command, and the
\* input contains it and the later alias "stop", bound to another handler:
\* the re-bound alias decided
C26_Witness ==
    /\ Resolved /\ last.tier = 2
    /\ \E i, j \in 1..Len(aliases) :
          /\ i < j
          /\ FirstAt(aliases, LastInput, i)
          /\ Contains(aliases[j][1], LastInput)
          /\ i <= Len(DefaultRegistry.aliases)
          /\ DefaultRegistry.aliases[i][1] = aliases[i][1]
          /\ DefaultRegistry.aliases[i][2] # aliases[i][2]
          /\ DictGet(commands, aliases[i][2]) # DictGet(commands, aliases[j][2])
          /\ Ran(DictGet(commands, aliases[i][2]))

-----------------------------------------------------------------------------
(* Claim about CommandHandler.execute (SpecExecute).                       *)

Executed == last.op = "execute"

\* the number of positional arguments of the most recent execute call
LastArgCount == log[Len(log)][2]

\* C27: execute never raises and never changes the table.  It looks the
\* lowercased, trimmed command up as a key: a command that is not a key
\* (although it may contain one) returns the "not found" message and no
\* handler is invoked; a command that is a key invokes that key's handler
\* alone and, when the handler raises, returns a string that begins with
\* "Error executing command".
C27_ExecuteNeverRaises ==
    /\ commands = CommandTable
    /\ Executed =>
          /\ last.raised = "no"
          /\ ~last.none
          /\ \E cmd \in {Strip(Lower(last.input))} :
                /\ cmd \notin {CommandTable[i][1] : i \in 1..Len(CommandTable)}
                      => /\ last.invoked = <<>>
                         /\ last.value = NotFoundMessage(cmd)
                /\ \A i \in 1..Len(CommandTable) :
                      CommandTable[i][1] = cmd
                      => /\ last.invoked = <<CommandTable[i][2]>>
                         /\ MethodRaises(CommandTable[i][2], LastArgCount)
                               => SubSeq(last.value, 1, Len(ErrorPrefix)) = ErrorPrefix
                         /\ ~MethodRaises(CommandTable[i][2], LastArgCount)
                               => last.value = <<"result", CommandTable[i][2]>>

\* " Open " was executed without the argument open_application needs, after
\* "open chrome", which contains a key, was not found
C27_Witness ==
    /\ Executed /\ Len(log) = 2
    /\ log[1][1] = <<"o","p","e","n"," ","c","h","r","o","m","e">>
    /\ last.input = <<" ","O","p","e","n"," ">>
    /\ LastArgCount = 0
    /\ last.invoked = <<"open_application">>
    /\ last.value = ErrorMessage(<<"o","p","e","n">>)

\* C28: every name an alias is bound to is a key of the command map, so a
\* process_command call that leaves at the alias tier has found and called
\* a handler.
C28_AliasesNameRegisteredCommands ==
    /\ \A i \in 1..Len(aliases) :
          \E j \in 1..Len(commands) : commands[j][1] = aliases[i][2]
    /\ (Resolved /\ last.tier = 2) => Len(last.invoked) = 1

\* after two register_command calls, one with a name that ends in a blank,
\* an input was resolved through an alias bound to that name
C28_Witness ==
    /\ nregs = 2
    /\ Resolved /\ last.tier = 2
    /\ \E i \in 1..Len(aliases) :
          /\ FirstAt(aliases, LastInput, i)
          /\ aliases[i][2] = <<"g","o"," ">>
          /\ Ran(DictGet(commands, aliases[i][2]))

-----------------------------------------------------------------------------
(* Claim about a session of process_input calls (SpecDialog).              *)

\* the fallback turns so far
FallbackTurns == Len(appended) \div 2

\* C29: between process_input calls the ledger has even length, at most 10,
\* its turns are user, assistant, user, assistant, ... and they are the two
\* turns of each of the last min(k, 5) of the k calls that reached
\* generate_response, oldest first: no user turn is without its reply.
C29_LedgerHoldsCompleteExchanges ==
    LET n == 2 * Min(FallbackTurns, 5)
    IN  /\ Len(conversation_history) = n
        /\ n <= 10
        /\ \A p \in 1..n :
              conversation_history[p].role =
                  (IF p % 2 = 1 THEN "user" ELSE "assistant")
        /\ conversation_history = SubSeq(appended, Len(appended) - n + 1, Len(appended))

\* the sixth fallback turn has been made, one of the six with a failing
\* print: the first exchange is evicted and the second is the oldest
C29_Witness ==
    /\ last.op = "process_input"
    /\ last.raised = "error"
    /\ FallbackTurns = 6
    /\ Len(conversation_history) = 10
    /\ conversation_history[1] = appended[3]
    /\ appended[1] # appended[3]

-----------------------------------------------------------------------------
(* Claim about the exit phrases under the built-in registrations (Spec).   *)

\* C30: while only the built-in registrations have been made, a loop
\* iteration that terminates the session by an exit phrase finds a registry
\* in which each of the four phrases runs _handle_exit ("exit" as a name,
\* the others as aliases); its process_input call returns _handle_exit's
\* reply and the ledger is the same after the iteration as before it.
C30_ExitPhrasesRunTheExitHandler ==
    [][ (TurnStep /\ nregs = 0 /\ ~exit_flag /\ exit_flag') =>
          /\ \A phrase \in ExitPhrases :
                \E r \in {ProcessCommand(commands, aliases, phrase)} :
                   /\ r.invoked = <<"_handle_exit">>
                   /\ r.tier = (IF phrase = <<"e","x","i","t">> THEN 1 ELSE 2)
          /\ last'.invoked = <<"_handle_exit">>
          /\ last'.raised = "no"
          /\ ~last'.none
          /\ last'.value = HandlerReturn("_handle_exit")
          /\ conversation_history' = conversation_history
      ]_vars

\* after a fallback exchange, the text loop was terminated by " Quit ",
\* resolved through the alias: the ledger still holds that one exchange
C30_Witness ==
    /\ TurnDone /\ last.op = "text_iteration"
    /\ nregs = 0
    /\ exit_flag /\ ~is_running
    /\ last.tier = 2
    /\ last.invoked = <<"_handle_exit">>
    /\ LastInput = <<"q","u","i","t">>
    /\ Len(conversation_history) = 2

-----------------------------------------------------------------------------
(* Claim about run() (SpecRun).                                            *)

\* run() has just returned to its caller without raising
RunReturned == last.op = "run_end" /\ last.raised = "no"

\* the position in the log of the run() call that has just ended
LastRunAt == CHOOSE i \in 1..Len(log) : log[i] = "run" /\ \A j \in (i + 1)..Len(log) : log[j] # "run"

\* C31: when run() has returned (the loop ended by an exit phrase or by an
\* interrupt, or an error left the loop and was reported as fatal),
\* shutdown() was called once during that run() call and completed, and
\* is_running is false.
C31_RunReturnsAfterOneShutdown ==
    RunReturned =>
        /\ ~is_running
        /\ SubSeq(log, LastRunAt + 1, Len(log)) = <<"shutdown">>

\* a second run() call returned after an error that left the loop was
\* reported as fatal; each of the two calls shut down once
C31_Witness ==
    /\ RunReturned
    /\ last.emitted = <<"fatal">>
    /\ log = <<"run", "shutdown", "run", "shutdown">>
    /\ ~is_running

-----------------------------------------------------------------------------
(* Claim about the reply of process_input (Spec).                          *)

\* C32: a loop iteration whose process_input call returned got a reply that
\* is not empty: the output of the handler that was invoked, or the
\* fallback reply, which generate_response has appended to the ledger as
\* its newest turn.
C32_ReplyIsNeverEmpty ==
    (TurnDone /\ last.acquired /\ last.raised = "no") =>
        /\ ~last.none
        /\ last.value # <<>>
        /\ \/ /\ Len(last.invoked) = 1
              /\ last.value = HandlerReturn(last.invoked[1])
           \/ /\ conversation_history # <<>>
              /\ conversation_history[Len(conversation_history)] =
                     [role |-> "assistant", content |-> last.value]

\* the handler of "mute" was invoked and returned the empty string: the
\* reply is the fallback's
C32_Witness ==
    /\ TurnDone /\ last.acquired /\ last.raised = "no"
    /\ last.invoked = <<"h_empty">>
    /\ HandlerReturn("h_empty") = <<>>
    /\ last.value # <<>>
    /\ conversation_history[Len(conversation_history)].content = last.value

-----------------------------------------------------------------------------
(* Claim about save_conversation (SpecSave).                               *)

\* the character a JSON reader gets from a written one
JsonRead(c) ==
    CASE c = "\\\"" -> "\""
      [] c = "\\u00e9" -> "é"
      [] OTHER -> c

\* C33: a save_conversation call does not raise and leaves the ledger, the
\* flags and the registry as they were, also when the sink fails; when the
\* sink accepts the record, the record holds one object per turn of the
\* ledger as it is at the call, in the ledger's order, from which the
\* turn's role and content are read back.
C33_SaveLeavesTheLedger ==
    [][ last'.op = "save_conversation" =>
          /\ last'.raised = "no"
          /\ conversation_history' = conversation_history
          /\ is_running' = is_running /\ exit_flag' = exit_flag
          /\ enable_voice' = enable_voice
          /\ commands' = commands /\ aliases' = aliases
          /\ last'.input = "none" =>
                /\ returned'.complete
                /\ Len(returned'.conversation) = Len(conversation_history)
                /\ \A p \in 1..Len(conversation_history) :
                      LET object == returned'.conversation[p]
                      IN  /\ object[1] = <<"role", conversation_history[p].role>>
                          /\ object[2][1] = "content"
                          /\ [i \in 1..Len(object[2][2]) |-> JsonRead(object[2][2][i])]
                                 = conversation_history[p].content
      ]_vars

\* with three turns in the ledger the sink failed while the record was
\* written: the failure was reported and the ledger still holds the turns
C33_Witness ==
    /\ last.op = "save_conversation"
    /\ last.input = "write_error"
    /\ last.emitted = <<"error">>
    /\ returned = TruncatedFile
    /\ Len(conversation_history) = 3
    /\ conversation_history[1].role # conversation_history[2].role

-----------------------------------------------------------------------------
(* Claim about get_weather_forecast (SpecForecast).                        *)

Max(a, b) == IF a >= b THEN a ELSE b

\* C34: whatever integer is passed as days, the number of days that a
\* get_weather_forecast call puts into its forecast request and into the
\* header of its reply is min(max(days, 1), 10), and the reply has no more
\* day entries than that.
C34_ForecastDaysAreClamped ==
    last.op = "get_weather_forecast" =>
        /\ \A i \in 1..Len(last.emitted) :
              last.emitted[i] # "geocoding" =>
                  last.emitted[i] = <<"forecast_days", Min(Max(last.input, 1), 10)>>
        /\ last.value[1] = "forecast" =>
              /\ last.value[2] = Min(Max(last.input, 1), 10)
              /\ last.value[3] <= Min(Max(last.input, 1), 10)
              /\ last.emitted # <<>>

\* a forecast for a negative number of days was asked and the service
\* returned a week: one day was requested and one day is in the reply
C34_Witness ==
    /\ last.op = "get_weather_forecast"
    /\ last.input < 0
    /\ last.emitted = << "geocoding", <<"forecast_days", 1>> >>
    /\ last.value = <<"forecast", 1, 1>>

=============================================================================
